---- MODULE Spec2Model ----
(***************************************************************************)
(* Skill-tree / XP model of CareerMatch-AI                                 *)
(* (ai-features/adaptive_recommendation_system.py and its copies), and    *)
(* the roadmap generator (ai-features/J. and 11. Transparent Career       *)
(* Roadmap Generation, integrator/orchestrator.py build_roadmap).         *)
(*                                                                         *)
(* Python dicts are functions whose DOMAIN is the set of keys; a missing   *)
(* key is a key outside the DOMAIN.  years_experience is held in units of  *)
(* 1/YearDen year, and intermediate XP sums in half points, so that the    *)
(* float arithmetic of the source (years * 20, int(...)) is exact integer  *)
(* arithmetic here.  The float products 0.7 * required_xp and              *)
(* required_xp * 0.3 are exact for the catalog's required_xp values        *)
(* (70.0, 56.0, 30.0, 24.0), so the comparisons are done on integers       *)
(* scaled by 10.                                                           *)
(***************************************************************************)
EXTENDS Integers, Sequences, FiniteSets, TLC

VARIABLES
    cv_features,      \* dict skill_id -> evidence dict, input of the session
    user_state,       \* dict skill_id -> [current_xp, status]
    recommendations,  \* content ids the call that ran last returned (<<>> if none)
    target_role,      \* target_role argument of that call ("" if it takes none)
    top_k,            \* top_k argument of that call (0 if it takes none)
    err,              \* "none" or the exception the last call raised
    pc,               \* the last operation that ran on user_state
    xp_skill,         \* skill_id argument of compute_initial_xp_for_skill
    xp_feat,          \* cv_features argument of compute_initial_xp_for_skill
    xp_out,           \* value returned by compute_initial_xp_for_skill
    xp_prev,          \* value it returned before one evidence field was raised
    pcx,              \* "input", "done" (returned), "raised" (one field raised
                      \* since it returned) or "redone" (returned again after that)
    role_req,         \* role_req argument of the roadmap functions
    dfs_skill,        \* skill argument of resolve_prereqs ("" before the call)
    visited,          \* visited set of resolve_prereqs
    order,            \* order list of resolve_prereqs
    stack,            \* the active dfs calls: [s, i], i the next prereq index
    entered,          \* the skills whose dfs body ran, in the order it ran
    dfs_steps,        \* number of steps the running call has taken
    prereqs,          \* list resolve_prereqs returned
    pcr,              \* "catalog", "dfs" (call running) or "returned"
    resume_found,     \* the SKILL_SYNONYMS values the resume text names
    rm_target_role,   \* target_role argument of the roadmap call
    detected_arg,     \* detected list the schedule_steps call that ran last got
    gaps_arg,         \* gaps list it got
    candidates,       \* candidates list of schedule_steps of J. (<<>> for 11.)
    roadmap,          \* list its schedule_steps call returned
    prev_roadmap,     \* list the same call returned the time before (<<>> if none)
    output,           \* RoadmapOutput of build_roadmap_logic (NoOutput if none)
    orch_out,         \* dict CareerMatchOrchestrator.build_roadmap returned
    orch_err,         \* "none" or the exception build_roadmap raised
    pcm,              \* "input" or the roadmap call that ran last
    heap,             \* the user_state dicts build_user_state_from_cv has created
    sess,             \* per session: its inputs, the dict it holds, its results
    files,            \* the .py files under ai-features/, as relative paths
    modules,          \* CareerMatchOrchestrator._modules: name -> path it loaded
    prev_modules,     \* _modules as it was before the method call that ran last
    disk_loads,       \* name -> number of times SourceFileLoader loaded it
    failed_loads,     \* the number of _load_module calls that raised, and the
                      \* module name of the last of them
    orch_method       \* the orchestrator method that ran last ("" if none)

treeVars == <<cv_features, user_state, recommendations, target_role, top_k, err, pc>>
xpVars == <<xp_skill, xp_feat, xp_out, xp_prev, pcx>>
prereqVars == <<role_req, dfs_skill, visited, order, stack, entered, dfs_steps, prereqs, pcr>>
dfsVars == <<dfs_skill, visited, order, stack, entered, dfs_steps, prereqs, pcr>>
mapVars == <<resume_found, rm_target_role, detected_arg, gaps_arg, candidates, roadmap,
             prev_roadmap, output, orch_out, orch_err, pcm>>
roadVars == <<prereqVars, mapVars>>
sessVars == <<heap, sess>>
orchVars == <<files, modules, prev_modules, disk_loads, failed_loads, orch_method>>
vars == <<cv_features, user_state, recommendations, target_role, top_k, err, pc,
          xp_skill, xp_feat, xp_out, xp_prev, pcx, roadVars, sessVars, orchVars>>

(***************************************************************************)
(* Bounds of the model                                                     *)
(***************************************************************************)
\* years_experience is a multiple of 1/YearDen year
YearDen == 40
\* largest years_experience (in 1/YearDen years) the XP specification draws
MaxYearUnits == 104
\* largest num_projects the XP specification draws
MaxProjects == 4
\* largest single raise of one evidence field between two XP computations
MaxRaise == 3
\* most skills that carry evidence in a session's cv_features
MaxEvidence == 2
\* largest top_k a recommendation call is made with
MaxTopK == 2
\* how far below zero the XP specification draws years_experience and num_projects
MaxNegative == 2
\* a drawn prerequisite catalog has at most MaxEdges prerequisite entries
MaxEdges == 4
\* a resume names at most MaxDetected skills
MaxDetected == 1
\* at most MaxJittered candidates of one call draw the greatest jitter
MaxJittered == 1
\* a session calls get_adaptive_recommendations at most MaxCalls times
MaxCalls == 2
\* at most MaxFailedLoads _load_module calls of one orchestrator raise
MaxFailedLoads == 1
\* longest gaps list a direct schedule_steps call is given
MaxGaps == 2
\* a catalog drawn for such a call has at most MaxRuleEdges prerequisite entries
MaxRuleEdges == 3

(***************************************************************************)
(* Static catalogs                                                         *)
(***************************************************************************)
\* SKILL_DEFS.keys() in insertion order
SkillOrder == <<"python", "pandas", "ml_fundamentals", "model_deployment", "sql", "data_viz">>

Skills == {SkillOrder[i] : i \in 1..Len(SkillOrder)}

SKILL_DEFS ==
    [sid \in Skills |->
        CASE sid = "python" ->
                [required_xp |-> 100, depends_on |-> <<>>,
                 roles |-> {"data_scientist", "ml_engineer", "backend"}]
          [] sid = "pandas" ->
                [required_xp |-> 80, depends_on |-> <<"python">>,
                 roles |-> {"data_scientist", "data_analyst"}]
          [] sid = "ml_fundamentals" ->
                [required_xp |-> 100, depends_on |-> <<"python">>,
                 roles |-> {"data_scientist", "ml_engineer"}]
          [] sid = "model_deployment" ->
                [required_xp |-> 80, depends_on |-> <<"ml_fundamentals">>,
                 roles |-> {"ml_engineer"}]
          [] sid = "sql" ->
                [required_xp |-> 100, depends_on |-> <<>>,
                 roles |-> {"data_analyst", "data_scientist"}]
          [] OTHER ->
                [required_xp |-> 80, depends_on |-> <<"pandas">>,
                 roles |-> {"data_analyst", "data_scientist"}]]

\* CONTENT_DB.keys() in insertion order
ContentOrder == <<"C101", "C102", "P101", "C103", "C201", "P201">>

ContentIds == {ContentOrder[i] : i \in 1..Len(ContentOrder)}

CONTENT_DB ==
    [cid \in ContentIds |->
        CASE cid = "C101" -> [type |-> "course", skill_id |-> "python", xp_level |-> "beginner"]
          [] cid = "C102" -> [type |-> "course", skill_id |-> "pandas", xp_level |-> "beginner"]
          [] cid = "P101" -> [type |-> "project", skill_id |-> "pandas", xp_level |-> "advanced"]
          [] cid = "C103" -> [type |-> "course", skill_id |-> "sql", xp_level |-> "beginner"]
          [] cid = "C201" -> [type |-> "course", skill_id |-> "ml_fundamentals", xp_level |-> "beginner"]
          [] OTHER -> [type |-> "project", skill_id |-> "ml_fundamentals", xp_level |-> "advanced"]]

\* the status values a UserSkillState takes
Statuses == {"locked", "unlocked", "in_progress", "completed"}

\* find_content_for_skill returns None
NoContent == "None"

\* the role names of the catalog and one name no skill lists
Roles == {"data_scientist", "ml_engineer", "backend", "data_analyst", "designer"}

\* the numerator of the unlock threshold 0.7, in tenths
UnlockTenths == 7
\* the greatest jitter schedule_steps adds to a score, in millionths
JitterMax == 9999
\* the numerator of PRACTICE_THRESHOLD_PERCENT = 0.3, in tenths
PracticeTenths == 3

(***************************************************************************)
(* Helpers for Python values                                               *)
(***************************************************************************)
Min(a, b) == IF a < b THEN a ELSE b

\* d.get(key, default)
Get(d, key, default) == IF key \in DOMAIN d THEN d[key] ELSE default

\* an empty dict
EmptyDict == [k \in {} |-> 0]

\* int(x) for x given in half points: truncation toward zero
IntOfHalves(x2) == IF x2 >= 0 THEN x2 \div 2 ELSE 0 - ((0 - x2) \div 2)

\* UserSkillState(current_xp=xp): status defaults to "locked"
UserSkillState(xp) == [current_xp |-> xp, status |-> "locked"]

(***************************************************************************)
(* XP estimation                                                           *)
(***************************************************************************)
\* mutant: a certificate sets the sum to 20 instead of adding 20 to it
EvidenceHalves_cert_overwrites(feat) ==
    LET years == Get(feat, "years_experience", 0)
        projects == Get(feat, "num_projects", 0)
        has_cert == Get(feat, "has_cert", FALSE)
    IN  IF has_cert THEN 40
        ELSE Min(100, (40 * years) \div YearDen) + Min(60, 20 * projects)

\* the evidence sum of compute_initial_xp_for_skill in half points:
\* min(50, years * 20) + min(30, projects * 10) + (20 if has_cert else 0)
EvidenceHalves(feat) ==
    LET years == Get(feat, "years_experience", 0)
        projects == Get(feat, "num_projects", 0)
        has_cert == Get(feat, "has_cert", FALSE)
    IN  Min(100, (40 * years) \div YearDen) + Min(60, 20 * projects)
          + (IF has_cert THEN 40 ELSE 0)

\* mutant: the clamp to required_xp is dropped
compute_initial_xp_unclamped(skill_id, cv) ==
    IF skill_id \notin DOMAIN cv \/ DOMAIN cv[skill_id] = {}
    THEN 0
    ELSE IntOfHalves(EvidenceHalves(cv[skill_id]))

compute_initial_xp_for_skill(skill_id, cv) ==
    IF skill_id \notin DOMAIN cv \/ DOMAIN cv[skill_id] = {}
    THEN 0
    ELSE IntOfHalves(Min(EvidenceHalves(cv[skill_id]), 2 * SKILL_DEFS[skill_id].required_xp))

build_user_state_from_cv(cv) ==
    [sid \in Skills |-> UserSkillState(compute_initial_xp_for_skill(sid, cv))]

(***************************************************************************)
(* Unlock / status engine                                                  *)
(***************************************************************************)
\* mutant: the threshold is taken from the skill's own required_xp
is_unlocked_own_required(skill_id, us) ==
    LET deps == SKILL_DEFS[skill_id].depends_on
    IN  \A i \in 1..Len(deps) :
           LET dep_state == Get(us, deps[i], UserSkillState(0))
           IN  ~(10 * dep_state.current_xp < UnlockTenths * SKILL_DEFS[skill_id].required_xp)

\* mutant: the threshold is exclusive (<= instead of <)
is_unlocked_exclusive(skill_id, us) ==
    LET deps == SKILL_DEFS[skill_id].depends_on
    IN  \A i \in 1..Len(deps) :
           LET dep_state == Get(us, deps[i], UserSkillState(0))
           IN  ~(10 * dep_state.current_xp <= UnlockTenths * SKILL_DEFS[deps[i]].required_xp)

\* mutant: a prerequisite must itself be open (not locked) as well
is_unlocked_transitive(skill_id, us) ==
    LET deps == SKILL_DEFS[skill_id].depends_on
    IN  \A i \in 1..Len(deps) :
           LET dep_state == Get(us, deps[i], UserSkillState(0))
           IN  /\ ~(10 * dep_state.current_xp < UnlockTenths * SKILL_DEFS[deps[i]].required_xp)
               /\ dep_state.status # "locked"

is_unlocked(skill_id, us) ==
    LET deps == SKILL_DEFS[skill_id].depends_on
    IN  \A i \in 1..Len(deps) :
           LET dep_state == Get(us, deps[i], UserSkillState(0))
           IN  ~(10 * dep_state.current_xp < UnlockTenths * SKILL_DEFS[deps[i]].required_xp)

\* mutant: the prerequisite gate is tested before completion
NewStatus_gated(sid, us) ==
    IF ~is_unlocked(sid, us) THEN "locked"
    ELSE IF us[sid].current_xp >= SKILL_DEFS[sid].required_xp THEN "completed"
    ELSE IF us[sid].current_xp > 0 THEN "in_progress" ELSE "unlocked"

\* mutant: the two arms of the in_progress / unlocked choice are swapped
NewStatus_swapped(sid, us) ==
    IF us[sid].current_xp >= SKILL_DEFS[sid].required_xp THEN "completed"
    ELSE IF is_unlocked(sid, us)
         THEN (IF us[sid].current_xp > 0 THEN "unlocked" ELSE "in_progress")
         ELSE "locked"

\* mutant: a stored "completed" is kept (the status is patched, not recomputed)
NewStatus_sticky(sid, us) ==
    IF us[sid].status = "completed" \/ us[sid].current_xp >= SKILL_DEFS[sid].required_xp
    THEN "completed"
    ELSE IF is_unlocked(sid, us)
         THEN (IF us[sid].current_xp > 0 THEN "in_progress" ELSE "unlocked")
         ELSE "locked"

\* the status one iteration of update_statuses assigns to skill sid
NewStatus(sid, us) ==
    IF us[sid].current_xp >= SKILL_DEFS[sid].required_xp THEN "completed"
    ELSE IF is_unlocked(sid, us)
         THEN (IF us[sid].current_xp > 0 THEN "in_progress" ELSE "unlocked")
         ELSE "locked"

\* mutant: the state object is replaced by a new one that has the status
WithStatus_fresh(state, status) == [current_xp |-> 0, status |-> status]

\* state.status = status: the other field of the object is left as it is
WithStatus(state, status) == [state EXCEPT !.status = status]

\* the loop of update_statuses from the i-th catalog skill on; user_state[sid]
\* raises KeyError on a missing key and leaves the statuses assigned so far
RECURSIVE UpdateFrom(_, _)
UpdateFrom(us, i) ==
    IF i > Len(SkillOrder) THEN [state |-> us, err |-> "none"]
    ELSE LET sid == SkillOrder[i]
         IN  IF sid \notin DOMAIN us THEN [state |-> us, err |-> "KeyError"]
             ELSE UpdateFrom([us EXCEPT ![sid] = WithStatus(@, NewStatus(sid, us))], i + 1)

update_statuses(us) == UpdateFrom(us, 1)

\* the loop of update_statuses when SKILL_DEFS.items() yields the skills in the
\* order ord, from its i-th skill on
RECURSIVE UpdateAlong(_, _, _)
UpdateAlong(us, ord, i) ==
    IF i > Len(ord) THEN [state |-> us, err |-> "none"]
    ELSE LET sid == ord[i]
         IN  IF sid \notin DOMAIN us THEN [state |-> us, err |-> "KeyError"]
             ELSE UpdateAlong([us EXCEPT ![sid] = WithStatus(@, NewStatus(sid, us))], ord, i + 1)

(***************************************************************************)
(* Recommendation selector                                                 *)
(***************************************************************************)
RECURSIVE FindFrom(_, _, _)
FindFrom(skill_id, xp_level, i) ==
    IF i > Len(ContentOrder) THEN NoContent
    ELSE LET item == CONTENT_DB[ContentOrder[i]]
         IN  IF item.skill_id = skill_id /\ item.xp_level = xp_level
             THEN ContentOrder[i]
             ELSE FindFrom(skill_id, xp_level, i + 1)

\* mutant: a skill without an item of the asked tier gets its item of the other tier
find_content_any_tier(skill_id, xp_level) ==
    LET asked == FindFrom(skill_id, xp_level, 1)
    IN  IF asked # NoContent THEN asked
        ELSE FindFrom(skill_id, IF xp_level = "beginner" THEN "advanced" ELSE "beginner", 1)

find_content_for_skill(skill_id, xp_level) == FindFrom(skill_id, xp_level, 1)

\* mutant: rule 2 lets completed skills through (only locked ones are skipped)
Eligible_completed(sid, us, role) ==
    /\ role \in SKILL_DEFS[sid].roles
    /\ us[sid].status # "locked"

\* rules 1 and 2 of get_adaptive_recommendations: the skill is not skipped
Eligible(sid, us, role) ==
    /\ role \in SKILL_DEFS[sid].roles
    /\ us[sid].status \in {"unlocked", "in_progress"}

\* mutant: the practice threshold is exclusive (<= instead of <)
ChosenLevel_exclusive(sid, us) ==
    IF 10 * us[sid].current_xp <= PracticeTenths * SKILL_DEFS[sid].required_xp
    THEN "beginner" ELSE "advanced"

\* the tier rule 3 of get_adaptive_recommendations chooses for a skill
ChosenLevel(sid, us) ==
    IF 10 * us[sid].current_xp < PracticeTenths * SKILL_DEFS[sid].required_xp
    THEN "beginner" ELSE "advanced"

\* the loop of get_adaptive_recommendations from the i-th catalog skill on
RECURSIVE RecsFrom(_, _, _, _)
RecsFrom(us, role, i, acc) ==
    IF i > Len(SkillOrder) THEN [recs |-> acc, err |-> "none"]
    ELSE LET sid == SkillOrder[i]
         IN  IF sid \notin DOMAIN us THEN [recs |-> <<>>, err |-> "KeyError"]
             ELSE IF ~Eligible(sid, us, role) THEN RecsFrom(us, role, i + 1, acc)
             ELSE LET content_item == find_content_for_skill(sid, ChosenLevel(sid, us))
                  IN  IF content_item # NoContent
                      THEN RecsFrom(us, role, i + 1, Append(acc, content_item))
                      ELSE RecsFrom(us, role, i + 1, acc)

\* mutant: lst[:k + 1]
SliceTo_inclusive(lst, k) ==
    IF k + 1 >= 0 THEN SubSeq(lst, 1, Min(k + 1, Len(lst)))
    ELSE SubSeq(lst, 1, IF Len(lst) + k + 1 > 0 THEN Len(lst) + k + 1 ELSE 0)

\* lst[:k]
SliceTo(lst, k) ==
    IF k >= 0 THEN SubSeq(lst, 1, Min(k, Len(lst)))
    ELSE SubSeq(lst, 1, IF Len(lst) + k > 0 THEN Len(lst) + k ELSE 0)

get_adaptive_recommendations(us, role, k) ==
    LET r == RecsFrom(us, role, 1, <<>>)
    IN  IF r.err = "none" THEN [recs |-> SliceTo(r.recs, k), err |-> "none"] ELSE r

(***************************************************************************)
(* Inputs                                                                  *)
(***************************************************************************)
\* an evidence dict; years in 1/YearDen years
Ev(years, projects, has_cert) ==
    [years_experience |-> years, num_projects |-> projects, has_cert |-> has_cert]

\* evidence dicts whose XP sums are 24, 30, 56, 69.5, 70 and 100: the values at
\* and next to the unlock and practice thresholds of the catalog
EvidenceSet ==
    {Ev(8, 2, FALSE), Ev(20, 2, FALSE), Ev(12, 3, TRUE),
     Ev(39, 3, TRUE), Ev(40, 3, TRUE), Ev(100, 3, TRUE)}

\* cv_features dicts: evidence for at most MaxEvidence skills
CvInputs ==
    UNION {[S -> EvidenceSet] : S \in {T \in SUBSET Skills : Cardinality(T) <= MaxEvidence}}

TopKs == 0..MaxTopK

(***************************************************************************)
(* The session: build_user_state_from_cv, update_statuses,                 *)
(* get_adaptive_recommendations on one caller-owned user_state             *)
(***************************************************************************)
\* role_req without skills and resources; keys is the insertion order of the
\* skills dict
EmptyRoleReq == [keys |-> <<>>, skills |-> EmptyDict, resources |-> EmptyDict]

PrereqIdle ==
    /\ role_req = EmptyRoleReq
    /\ dfs_skill = ""
    /\ visited = {}
    /\ order = <<>>
    /\ stack = <<>>
    /\ entered = <<>>
    /\ dfs_steps = 0
    /\ prereqs = <<>>
    /\ pcr = "catalog"

\* no RoadmapOutput
NoOutput ==
    [target_role |-> "", detected_skills |-> <<>>, gaps |-> <<>>, roadmap |-> <<>>,
     narrative |-> ""]

MapIdle ==
    /\ resume_found = {}
    /\ rm_target_role = ""
    /\ detected_arg = <<>>
    /\ gaps_arg = <<>>
    /\ candidates = <<>>
    /\ roadmap = <<>>
    /\ prev_roadmap = <<>>
    /\ output = NoOutput
    /\ orch_out = EmptyDict
    /\ orch_err = "none"
    /\ pcm = "input"

RoadIdle == PrereqIdle /\ MapIdle

XpIdle ==
    /\ xp_skill = "python"
    /\ xp_feat = EmptyDict
    /\ xp_out = 0
    /\ xp_prev = 0
    /\ pcx = "input"

\* no session has started
SessIdle ==
    /\ heap = <<>>
    /\ sess = <<>>

\* no orchestrator has been constructed
OrchIdle ==
    /\ files = {}
    /\ modules = EmptyDict
    /\ prev_modules = EmptyDict
    /\ disk_loads = EmptyDict
    /\ failed_loads = EmptyDict
    /\ orch_method = ""

TreeIdle ==
    /\ cv_features = EmptyDict
    /\ user_state = EmptyDict
    /\ recommendations = <<>>
    /\ target_role = ""
    /\ top_k = 0
    /\ err = "none"
    /\ pc = "init"

Init ==
    /\ cv_features \in CvInputs
    /\ user_state = EmptyDict
    /\ recommendations = <<>>
    /\ target_role = ""
    /\ top_k = 0
    /\ err = "none"
    /\ pc = "init"
    /\ XpIdle
    /\ SessIdle
    /\ OrchIdle
    /\ RoadIdle

BuildUserState ==
    /\ user_state' = build_user_state_from_cv(cv_features)
    /\ recommendations' = <<>>
    /\ target_role' = ""
    /\ top_k' = 0
    /\ err' = "none"
    /\ pc' = "built"
    /\ UNCHANGED <<roadVars, sessVars, orchVars>>
    /\ UNCHANGED <<cv_features, xp_skill, xp_feat, xp_out, xp_prev, pcx>>

UpdateStatuses ==
    /\ LET r == update_statuses(user_state)
       IN  /\ user_state' = r.state
           /\ err' = r.err
    /\ recommendations' = <<>>
    /\ target_role' = ""
    /\ top_k' = 0
    /\ pc' = "updated"
    /\ UNCHANGED <<roadVars, sessVars, orchVars>>
    /\ UNCHANGED <<cv_features, xp_skill, xp_feat, xp_out, xp_prev, pcx>>

Recommend(role, k) ==
    /\ LET r == get_adaptive_recommendations(user_state, role, k)
       IN  /\ recommendations' = r.recs
           /\ err' = r.err
    /\ target_role' = role
    /\ top_k' = k
    /\ pc' = "recommended"
    /\ UNCHANGED <<roadVars, sessVars, orchVars>>
    /\ UNCHANGED <<cv_features, user_state, xp_skill, xp_feat, xp_out, xp_prev, pcx>>

Next ==
    \/ BuildUserState
    \/ UpdateStatuses
    \/ \E role \in Roles, k \in TopKs : Recommend(role, k)

Spec == Init /\ [][Next]_vars

(***************************************************************************)
(* Caller-supplied user_state dicts: any subset of the catalog's keys,     *)
(* any stored status                                                       *)
(***************************************************************************)
\* XP values a caller-built dict holds: none, between the thresholds, full
CallerXp == {0, 70, 100}

CallerDicts ==
    UNION {{[s \in D |-> [current_xp |-> f[s], status |-> st]] :
               f \in [D -> CallerXp], st \in Statuses} : D \in SUBSET Skills}

InitCaller ==
    /\ cv_features = EmptyDict
    /\ user_state \in CallerDicts
    /\ recommendations = <<>>
    /\ target_role = ""
    /\ top_k = 0
    /\ err = "none"
    /\ pc = "init"
    /\ XpIdle
    /\ SessIdle
    /\ OrchIdle
    /\ RoadIdle

NextCaller == UpdateStatuses

SpecCaller == InitCaller /\ [][NextCaller]_vars

(***************************************************************************)
(* XP progression: the caller raises one skill's current_xp, then calls    *)
(* update_statuses                                                         *)
(***************************************************************************)
\* the XP values a skill is raised through: 0, just below and at the unlock
\* threshold its dependants test, and its required_xp
XpLevels(sid) ==
    LET req == SKILL_DEFS[sid].required_xp
    IN  {0, (UnlockTenths * req) \div 10 - 1, (UnlockTenths * req) \div 10, req}

InitProgress ==
    /\ cv_features = EmptyDict
    /\ user_state = update_statuses(build_user_state_from_cv(EmptyDict)).state
    /\ recommendations = <<>>
    /\ target_role = ""
    /\ top_k = 0
    /\ err = "none"
    /\ pc = "updated"
    /\ XpIdle
    /\ SessIdle
    /\ OrchIdle
    /\ RoadIdle

GainXP(sid, xp) ==
    /\ pc = "updated"
    /\ err = "none"
    /\ xp > user_state[sid].current_xp
    /\ user_state' = [user_state EXCEPT ![sid].current_xp = xp]
    /\ pc' = "gained"
    /\ UNCHANGED <<roadVars, sessVars, orchVars>>
    /\ UNCHANGED <<cv_features, recommendations, target_role, top_k, err,
                   xp_skill, xp_feat, xp_out, xp_prev, pcx>>

NextProgress ==
    \/ \E sid \in Skills : \E xp \in XpLevels(sid) : GainXP(sid, xp)
    \/ UpdateStatuses

SpecProgress == InitProgress /\ [][NextProgress]_vars

(***************************************************************************)
(* update_statuses under every iteration order of the catalog              *)
(***************************************************************************)
\* the orders in which a dict of the catalog's skills can be iterated
Orders ==
    {[i \in 1..Len(SkillOrder) |-> SkillOrder[f[i]]] :
        f \in Permutations(1..Len(SkillOrder))}

\* user states over the whole catalog, as build_user_state_from_cv leaves them
\* (every status "locked") or as an earlier update left them
OrderDicts ==
    {[s \in Skills |-> [current_xp |-> f[s], status |-> st]] :
        f \in [Skills -> CallerXp], st \in {"locked", "unlocked"}}

InitOrder ==
    /\ cv_features = EmptyDict
    /\ user_state \in OrderDicts
    /\ recommendations = <<>>
    /\ target_role = ""
    /\ top_k = 0
    /\ err = "none"
    /\ pc = "init"
    /\ XpIdle
    /\ SessIdle
    /\ OrchIdle
    /\ RoadIdle

\* update_statuses(user_state) with the catalog iterated in the order ord
UpdateStatusesIn(ord) ==
    /\ pc = "init"
    /\ LET r == UpdateAlong(user_state, ord, 1)
       IN  /\ user_state' = r.state
           /\ err' = r.err
    /\ pc' = "updated"
    /\ UNCHANGED <<roadVars, sessVars, orchVars>>
    /\ UNCHANGED <<cv_features, recommendations, target_role, top_k,
                   xp_skill, xp_feat, xp_out, xp_prev, pcx>>

NextOrder == \E ord \in Orders : UpdateStatusesIn(ord)

SpecOrder == InitOrder /\ [][NextOrder]_vars

(***************************************************************************)
(* Two sessions, each with its own user_state, run build_user_state_from_cv, *)
(* update_statuses and get_adaptive_recommendations with their steps       *)
(* interleaved; one step of update_statuses is one iteration of its loop.  *)
(* heap holds the dicts the calls create; a session holds a reference.     *)
(***************************************************************************)
Sessions == {1, 2}

\* the cv_features of a session: none, python at 70 XP, python at 100 XP
SessCvs ==
    {EmptyDict} \cup {[s \in {"python"} |-> e] : e \in {Ev(40, 3, TRUE), Ev(100, 3, TRUE)}}

SessRoles == {"data_scientist", "ml_engineer"}

\* mutant: the dict is a module-level object every call fills again
NewRef_shared(h) == 1

\* user_state = {}: the call creates a dict of its own
NewRef(h) == Len(h) + 1

InitSessions ==
    /\ heap = <<>>
    /\ sess \in [Sessions ->
                    [cv : SessCvs, role : SessRoles, k : TopKs \ {0}, ref : {0}, i : {0},
                     recs : {<<>>}, prev_recs : {<<>>}, calls : {0}, pc : {"start"}]]
    /\ OrchIdle
    /\ TreeIdle
    /\ XpIdle
    /\ RoadIdle

\* session n calls build_user_state_from_cv(cv_features)
SessBuild(n) ==
    /\ sess[n].pc = "start"
    /\ LET r == NewRef(heap)
       IN  /\ heap' = (r :> build_user_state_from_cv(sess[n].cv)) @@ heap
           /\ sess' = [sess EXCEPT ![n].ref = r, ![n].pc = "built"]
    /\ UNCHANGED <<treeVars, xpVars, roadVars, orchVars>>

\* one iteration of the loop of update_statuses(user_state) of session n; the
\* call returns after the iteration of the last catalog skill
SessUpdateStep(n) ==
    /\ sess[n].pc \in {"built", "updating"}
    /\ LET i == IF sess[n].pc = "built" THEN 1 ELSE sess[n].i
           sid == SkillOrder[i]
           us == heap[sess[n].ref]
       IN  /\ heap' = [heap EXCEPT ![sess[n].ref][sid] = WithStatus(@, NewStatus(sid, us))]
           /\ sess' = IF i = Len(SkillOrder)
                      THEN [sess EXCEPT ![n].i = 0, ![n].pc = "updated"]
                      ELSE [sess EXCEPT ![n].i = i + 1, ![n].pc = "updating"]
    /\ UNCHANGED <<treeVars, xpVars, roadVars, orchVars>>

\* session n calls get_adaptive_recommendations(user_state, target_role, top_k)
SessRecommend(n) ==
    /\ sess[n].pc \in {"updated", "recommended"}
    /\ sess[n].calls < MaxCalls
    /\ sess' = [sess EXCEPT
                   ![n].recs = get_adaptive_recommendations(heap[sess[n].ref],
                                                            sess[n].role, sess[n].k).recs,
                   ![n].prev_recs = sess[n].recs,
                   ![n].calls = @ + 1,
                   ![n].pc = "recommended"]
    /\ UNCHANGED heap
    /\ UNCHANGED <<treeVars, xpVars, roadVars, orchVars>>

NextSessions ==
    \E n \in Sessions : SessBuild(n) \/ SessUpdateStep(n) \/ SessRecommend(n)

SpecSessions == InitSessions /\ [][NextSessions]_vars

(***************************************************************************)
(* compute_initial_xp_for_skill as a function of its arguments             *)
(***************************************************************************)
\* the cv_features arguments for skill sid: no entry, an empty entry, or a record
XpCvInputs(sid) ==
    {EmptyDict, [k \in {sid} |-> EmptyDict]} \cup
    {[k \in {sid} |-> Ev(y, p, c)] :
        y \in (0 - MaxNegative)..MaxYearUnits,
        p \in (0 - MaxNegative)..MaxProjects,
        c \in BOOLEAN}

InitXP ==
    /\ TreeIdle
    /\ RoadIdle
    /\ SessIdle
    /\ OrchIdle
    /\ xp_skill \in Skills
    /\ xp_feat \in XpCvInputs(xp_skill)
    /\ xp_out = 0
    /\ xp_prev = 0
    /\ pcx = "input"

XpCompute ==
    /\ pcx \in {"input", "raised"}
    /\ xp_out' = compute_initial_xp_for_skill(xp_skill, xp_feat)
    /\ xp_prev' = xp_out
    /\ pcx' = (IF pcx = "raised" THEN "redone" ELSE "done")
    /\ UNCHANGED <<roadVars, sessVars, orchVars>>
    /\ UNCHANGED <<cv_features, user_state, recommendations, target_role, top_k, err, pc,
                   xp_skill, xp_feat>>

\* the record of xp_feat for xp_skill with one field replaced
WithField(field, value) ==
    [xp_feat EXCEPT ![xp_skill] = [@ EXCEPT ![field] = value]]

HasRecord == xp_skill \in DOMAIN xp_feat /\ DOMAIN xp_feat[xp_skill] # {}

XpRaiseYears(d) ==
    /\ pcx \in {"done", "redone"}
    /\ HasRecord
    /\ xp_feat[xp_skill].years_experience + d <= MaxYearUnits
    /\ xp_feat' = WithField("years_experience", xp_feat[xp_skill].years_experience + d)
    /\ pcx' = "raised"
    /\ UNCHANGED <<roadVars, sessVars, orchVars>>
    /\ UNCHANGED <<cv_features, user_state, recommendations, target_role, top_k, err, pc,
                   xp_skill, xp_out, xp_prev>>

XpRaiseProjects(d) ==
    /\ pcx \in {"done", "redone"}
    /\ HasRecord
    /\ xp_feat[xp_skill].num_projects + d <= MaxProjects
    /\ xp_feat' = WithField("num_projects", xp_feat[xp_skill].num_projects + d)
    /\ pcx' = "raised"
    /\ UNCHANGED <<roadVars, sessVars, orchVars>>
    /\ UNCHANGED <<cv_features, user_state, recommendations, target_role, top_k, err, pc,
                   xp_skill, xp_out, xp_prev>>

XpGainCert ==
    /\ pcx \in {"done", "redone"}
    /\ HasRecord
    /\ ~xp_feat[xp_skill].has_cert
    /\ xp_feat' = WithField("has_cert", TRUE)
    /\ pcx' = "raised"
    /\ UNCHANGED <<roadVars, sessVars, orchVars>>
    /\ UNCHANGED <<cv_features, user_state, recommendations, target_role, top_k, err, pc,
                   xp_skill, xp_out, xp_prev>>

NextXP ==
    \/ XpCompute
    \/ \E d \in 1..MaxRaise : XpRaiseYears(d)
    \/ \E d \in 1..MaxRaise : XpRaiseProjects(d)
    \/ XpGainCert

SpecXP == InitXP /\ [][NextXP]_vars

(***************************************************************************)
(* Roadmap generation: prerequisite resolution                             *)
(* (ai-features/J. and 11. Transparent Career Roadmap Generation)          *)
(***************************************************************************)
\* the members of a list
Range(lst) == {lst[i] : i \in 1..Len(lst)}

\* meta.get("prereq", []) of skills_meta.get(s, {})
PrereqList(rr, s) == Get(Get(rr.skills, s, EmptyDict), "prereq", <<>>)

\* mutant: the visited test of dfs never succeeds
Seen_never(s, vis) == FALSE

\* s in visited
Seen(s, vis) == s \in vis

\* mutant: the skill itself is left in the list
ExcludeSkill_keeps(lst, skill) == lst

\* [v for v in order if v != skill]
ExcludeSkill(lst, skill) == SelectSeq(lst, LAMBDA v : v # skill)

\* dfs(s) on the pair st = [visited, order], and its loop over the prereq list
RECURSIVE dfs(_, _, _), dfs_loop(_, _, _, _)
dfs(s, st, rr) ==
    IF Seen(s, st.visited) THEN st
    ELSE LET st2 == dfs_loop(PrereqList(rr, s), 1,
                             [visited |-> st.visited \cup {s}, order |-> st.order], rr)
         IN  [visited |-> st2.visited, order |-> Append(st2.order, s)]

dfs_loop(ps, i, st, rr) ==
    IF i > Len(ps) THEN st ELSE dfs_loop(ps, i + 1, dfs(ps[i], st, rr), rr)

\* mutant: the list is returned with the skill that depends on the others first
resolve_prereqs_reversed(skill, rr) ==
    LET lst == ExcludeSkill(dfs(skill, [visited |-> {}, order |-> <<>>], rr).order, skill)
    IN  [i \in 1..Len(lst) |-> lst[Len(lst) + 1 - i]]

resolve_prereqs(skill, rr) ==
    ExcludeSkill(dfs(skill, [visited |-> {}, order |-> <<>>], rr).order, skill)

\* the skills the drawn catalogs are written over: three with a meta entry and
\* one, Python, that is only ever named as a prerequisite
CatalogKeys == <<"Deep Learning", "Machine Learning Basics", "Linear Algebra">>

GraphSkills == Range(CatalogKeys) \cup {"Python"}

\* the position of a skill among the skills the catalogs name
SkillAt(s) == CHOOSE i \in 1..(Len(CatalogKeys) + 1) : (CatalogKeys \o <<"Python">>)[i] = s

\* the catalog before any prerequisite is entered
BareCatalog ==
    [keys |-> CatalogKeys,
     skills |-> [s \in Range(CatalogKeys) |-> [prereq |-> <<>>]],
     resources |-> EmptyDict]

\* number of prerequisite entries of a catalog
RECURSIVE EdgesFrom(_, _)
EdgesFrom(rr, i) ==
    IF i > Len(rr.keys) THEN 0 ELSE Len(PrereqList(rr, rr.keys[i])) + EdgesFrom(rr, i + 1)

TotalEdges(rr) == EdgesFrom(rr, 1)

InitPrereq ==
    /\ role_req = BareCatalog
    /\ dfs_skill = ""
    /\ visited = {}
    /\ order = <<>>
    /\ stack = <<>>
    /\ entered = <<>>
    /\ dfs_steps = 0
    /\ prereqs = <<>>
    /\ pcr = "catalog"
    /\ MapIdle
    /\ TreeIdle
    /\ XpIdle
    /\ SessIdle
    /\ OrchIdle

\* the catalog gets one more prerequisite entry: p is appended to the prereq
\* list of s
AddPrereq(s, p) ==
    /\ pcr = "catalog"
    /\ TotalEdges(role_req) < MaxEdges
    /\ p \notin Range(PrereqList(role_req, s))
    /\ role_req' = [role_req EXCEPT !.skills[s].prereq = Append(@, p)]
    /\ UNCHANGED <<dfs_skill, visited, order, stack, entered, dfs_steps, prereqs, pcr>>
    /\ UNCHANGED <<treeVars, xpVars, mapVars, sessVars, orchVars>>

\* resolve_prereqs(skill, role_req) is called: visited and order are created
\* and dfs(skill) enters its body
ResolveCall(skill) ==
    /\ pcr = "catalog"
    /\ dfs_skill' = skill
    /\ visited' = {skill}
    /\ order' = <<>>
    /\ stack' = <<[s |-> skill, i |-> 1]>>
    /\ entered' = <<skill>>
    /\ dfs_steps' = 0
    /\ prereqs' = <<>>
    /\ pcr' = "dfs"
    /\ UNCHANGED role_req
    /\ UNCHANGED <<treeVars, xpVars, mapVars, sessVars, orchVars>>

\* the innermost active dfs call and the prereq list it loops over
Top == stack[Len(stack)]
TopList == PrereqList(role_req, Top.s)
Advanced == [stack EXCEPT ![Len(stack)].i = @ + 1]

\* the loop calls dfs(p) for a p that is not visited: the body of dfs(p) starts
DfsEnter ==
    /\ pcr = "dfs"
    /\ Top.i <= Len(TopList)
    /\ ~Seen(TopList[Top.i], visited)
    /\ visited' = visited \cup {TopList[Top.i]}
    /\ stack' = Append(Advanced, [s |-> TopList[Top.i], i |-> 1])
    /\ entered' = Append(entered, TopList[Top.i])
    /\ dfs_steps' = dfs_steps + 1
    /\ UNCHANGED <<role_req, dfs_skill, order, prereqs, pcr>>
    /\ UNCHANGED <<treeVars, xpVars, mapVars, sessVars, orchVars>>

\* the loop calls dfs(p) for a visited p: the call returns at once
DfsSkip ==
    /\ pcr = "dfs"
    /\ Top.i <= Len(TopList)
    /\ Seen(TopList[Top.i], visited)
    /\ stack' = Advanced
    /\ dfs_steps' = dfs_steps + 1
    /\ UNCHANGED <<role_req, dfs_skill, visited, order, entered, prereqs, pcr>>
    /\ UNCHANGED <<treeVars, xpVars, mapVars, sessVars, orchVars>>

\* the loop of the innermost call is over: it appends its skill and returns;
\* when it is dfs(skill) itself, resolve_prereqs filters the list and returns
DfsLeave ==
    /\ pcr = "dfs"
    /\ Top.i > Len(TopList)
    /\ order' = Append(order, Top.s)
    /\ stack' = SubSeq(stack, 1, Len(stack) - 1)
    /\ dfs_steps' = dfs_steps + 1
    /\ IF Len(stack) = 1
       THEN /\ prereqs' = ExcludeSkill(order', dfs_skill)
            /\ pcr' = "returned"
       ELSE UNCHANGED <<prereqs, pcr>>
    /\ UNCHANGED <<role_req, dfs_skill, visited, entered>>
    /\ UNCHANGED <<treeVars, xpVars, mapVars, sessVars, orchVars>>

NextPrereq ==
    \/ \E s \in Range(CatalogKeys), p \in GraphSkills : AddPrereq(s, p)
    \/ \E skill \in GraphSkills : ResolveCall(skill)
    \/ DfsEnter
    \/ DfsSkip
    \/ DfsLeave

SpecPrereq == InitPrereq /\ [][NextPrereq]_vars

(***************************************************************************)
(* Roadmap generation: knowledge graph, gap analysis, scheduling           *)
(*                                                                         *)
(* importance is held in thousandths (0.95 is 950); importance * 0.7 of    *)
(* the catalog's values is then importance * 7 \div 10.  A formatted       *)
(* string is the string the f-string of the source produces.              *)
(***************************************************************************)
Meta(importance, prereq) == [importance |-> importance, prereq |-> prereq]

RoleNames == {"Machine Learning Engineer", "Data Analyst"}

KNOWLEDGE_GRAPH ==
    [r \in RoleNames |->
        IF r = "Machine Learning Engineer"
        THEN [keys |-> <<"Machine Learning Basics", "Deep Learning",
                         "Model Deployment", "Data Engineering">>,
              skills |->
                  ("Machine Learning Basics" :>
                       Meta(900, <<"Probability & Statistics", "Python">>)) @@
                  ("Deep Learning" :>
                       Meta(950, <<"Machine Learning Basics", "Linear Algebra">>)) @@
                  ("Model Deployment" :> Meta(800, <<"Docker", "REST APIs">>)) @@
                  ("Data Engineering" :> Meta(700, <<"SQL">>)),
              resources |->
                  ("Machine Learning Basics" :> "Course: Intro to ML (example)") @@
                  ("Deep Learning" :> "Course: Deep Learning Specialization (example)") @@
                  ("Model Deployment" :> "Project: Deploy model with Docker + FastAPI") @@
                  ("Data Engineering" :> "Course: Data Engineering Bootcamp") @@
                  ("SQL" :> "Course: SQL for Data Analysis") @@
                  ("Python" :> "Course: Python for Data Science")]
        ELSE [keys |-> <<"Data Analysis", "SQL", "Visualization">>,
              skills |->
                  ("Data Analysis" :> Meta(900, <<"Excel", "Python">>)) @@
                  ("SQL" :> Meta(850, <<>>)) @@
                  ("Visualization" :> Meta(800, <<"Data Analysis">>)),
              resources |->
                  ("Data Analysis" :> "Course: Data Analysis with Python") @@
                  ("SQL" :> "Course: SQL for Data Analysis") @@
                  ("Visualization" :>
                       "Project: Build dashboards with PowerBI or Tableau")]]

\* the values of SKILL_SYNONYMS, in the order sorted() gives them
SynonymSkills ==
    <<"Data Analysis", "Deep Learning", "Docker", "Excel", "Linear Algebra",
      "Machine Learning Basics", "Model Deployment", "Probability & Statistics",
      "Python", "REST APIs", "SQL", "Visualization">>

\* simple_skill_extractor: found is the set of SKILL_SYNONYMS values whose key
\* occurs in the resume text; the result is sorted(found)
simple_skill_extractor(found) == SelectSeq(SynonymSkills, LAMBDA n : n \in found)

\* SKILL_SYNONYMS.get(s.lower(), s) for the names the extractor returns: the
\* lower-cased name is a key that maps back to the name, or is no key at all
\* ("Machine Learning Basics", "Model Deployment", "Probability & Statistics",
\* "REST APIs")
Synonym(s) ==
    CASE s = "Data Analysis" -> "Data Analysis"
      [] s = "Deep Learning" -> "Deep Learning"
      [] s = "Docker" -> "Docker"
      [] s = "Excel" -> "Excel"
      [] s = "Linear Algebra" -> "Linear Algebra"
      [] s = "Python" -> "Python"
      [] s = "SQL" -> "SQL"
      [] s = "Visualization" -> "Visualization"
      [] OTHER -> s

\* list(dict.fromkeys(lst)): the first occurrence of every member, in order
RECURSIVE Dedupe(_, _, _)
Dedupe(lst, i, acc) ==
    IF i > Len(lst) THEN acc
    ELSE Dedupe(lst, i + 1, IF lst[i] \in Range(acc) THEN acc ELSE Append(acc, lst[i]))

normalize_skills(skills) ==
    Dedupe([i \in 1..Len(skills) |-> Synonym(skills[i])], 1, <<>>)

\* mutant: an unknown role gets the requirements of Data Analyst
get_role_requirements_default(role) ==
    Get(KNOWLEDGE_GRAPH, role, KNOWLEDGE_GRAPH["Data Analyst"])

\* KNOWLEDGE_GRAPH.get(role); None is the role_req without any entry
get_role_requirements(role) == Get(KNOWLEDGE_GRAPH, role, EmptyRoleReq)

\* a list of <<key, item>> pairs sorted by key, largest first, pairs of equal
\* key in their original order (list.sort(reverse=True), sorted(key=-...))
InsertDesc(sorted, x) ==
    LET n == Cardinality({i \in 1..Len(sorted) : sorted[i][1] >= x[1]})
    IN  SubSeq(sorted, 1, n) \o <<x>> \o SubSeq(sorted, n + 1, Len(sorted))

RECURSIVE SortDescFrom(_, _, _)
SortDescFrom(pairs, i, acc) ==
    IF i > Len(pairs) THEN acc ELSE SortDescFrom(pairs, i + 1, InsertDesc(acc, pairs[i]))

SortDesc(pairs) == SortDescFrom(pairs, 1, <<>>)

\* the second components of a list of pairs
Items(pairs) == [i \in 1..Len(pairs) |-> pairs[i][2]]

\* the gap dicts of the required skills that are not detected, in dict order
GapDicts(detected, rr) ==
    LET missing == SelectSeq(rr.keys, LAMBDA k : k \notin Range(detected))
    IN  [i \in 1..Len(missing) |->
            [skill |-> missing[i],
             importance |-> Get(rr.skills[missing[i]], "importance", 0)]]

\* mutant: the gap dicts are returned in dict order
gap_analysis_unsorted(detected, rr) == GapDicts(detected, rr)

gap_analysis(detected, rr) ==
    LET gaps == GapDicts(detected, rr)
    IN  Items(SortDesc([i \in 1..Len(gaps) |-> <<gaps[i].importance, gaps[i]>>]))

\* str(role_req) as an f-string formats it: the repr of the dict
Repr(rr) ==
    IF rr = KNOWLEDGE_GRAPH["Machine Learning Engineer"]
    THEN "{'skills': {'Machine Learning Basics': {'importance': 0.9, ...}, ...}, 'resources': {...}}"
    ELSE IF rr = KNOWLEDGE_GRAPH["Data Analyst"]
    THEN "{'skills': {'Data Analysis': {'importance': 0.9, ...}, ...}, 'resources': {...}}"
    ELSE "{'skills': {...}, 'resources': {...}}"

\* mutant: a prerequisite is scheduled although it is in detected
Schedulable_ignores_detected(p, detected, seen) == p \notin seen

\* mutant: a prerequisite is scheduled again although it is in seen
Schedulable_ignores_seen(p, detected, seen) == p \notin Range(detected)

\* p not in detected and p not in seen
Schedulable(p, detected, seen) == p \notin Range(detected) /\ p \notin seen

\* mutant: the gap gets its core step although it is in seen
CoreDue_always(skill, seen) == TRUE

\* if skill not in seen: the gap gets its core step
CoreDue(skill, seen) == skill \notin seen

\* schedule_steps of 11.: the loop over prereqs of one gap, on st = [roadmap, seen]
RECURSIVE PrereqSteps11(_, _, _, _, _, _)
PrereqSteps11(ps, i, skill, rr, detected, st) ==
    IF i > Len(ps) THEN st
    ELSE PrereqSteps11(ps, i + 1, skill, rr, detected,
            IF Schedulable(ps[i], detected, st.seen)
            THEN [roadmap |-> Append(st.roadmap,
                                [step |-> ps[i],
                                 type |-> "Course/Preparation",
                                 duration_weeks |-> 2,
                                 reason |-> "Prerequisite for " \o skill,
                                 resource |-> Get(rr.resources, ps[i], "None")]),
                  seen |-> st.seen \cup {ps[i]}]
            ELSE st)

\* schedule_steps of 11.: the loop over gaps
RECURSIVE GapSteps11(_, _, _, _, _)
GapSteps11(gaps, i, rr, detected, st) ==
    IF i > Len(gaps) THEN st
    ELSE LET skill == gaps[i].skill
             st2 == PrereqSteps11(resolve_prereqs(skill, rr), 1, skill, rr, detected, st)
         IN  GapSteps11(gaps, i + 1, rr, detected,
                 IF CoreDue(skill, st2.seen)
                 THEN [roadmap |-> Append(st2.roadmap,
                                     [step |-> skill,
                                      type |-> "Course/Project",
                                      duration_weeks |-> 3,
                                      reason |-> "Core requirement for " \o Repr(rr),
                                      resource |-> Get(rr.resources, skill, "None")]),
                       seen |-> st2.seen \cup {skill}]
                 ELSE st2)

\* schedule_steps(gaps, role_req, detected) of 11. (rule-based order)
schedule_steps_11(gaps, rr, detected) ==
    GapSteps11(gaps, 1, rr, detected, [roadmap |-> <<>>, seen |-> {}]).roadmap

\* schedule_steps of J.: the loop over enumerate(prereqs, start=1) of one gap,
\* on st = [candidates, seen]
RECURSIVE PrereqCandidates(_, _, _, _, _, _, _)
PrereqCandidates(ps, depth, skill, importance, rr, detected, st) ==
    IF depth > Len(ps) THEN st
    ELSE PrereqCandidates(ps, depth + 1, skill, importance, rr, detected,
            IF Schedulable(ps[depth], detected, st.seen)
            THEN [candidates |-> Append(st.candidates,
                                   [name |-> ps[depth],
                                    type |-> "Course/Preparation",
                                    duration_weeks |-> 2,
                                    reason |-> "Prerequisite for " \o skill,
                                    resource |-> Get(rr.resources, ps[depth], "None"),
                                    importance |-> Get(Get(rr.skills, ps[depth], EmptyDict),
                                                       "importance", (importance * 7) \div 10),
                                    is_prereq |-> TRUE,
                                    prereq_depth |-> depth]),
                  seen |-> st.seen \cup {ps[depth]}]
            ELSE st)

\* schedule_steps of J.: the loop over gaps
RECURSIVE GapCandidates(_, _, _, _, _, _)
GapCandidates(gaps, i, rr, detected, role, st) ==
    IF i > Len(gaps) THEN st
    ELSE LET skill == gaps[i].skill
             importance == gaps[i].importance
             st2 == PrereqCandidates(resolve_prereqs(skill, rr), 1, skill, importance,
                                     rr, detected, st)
         IN  GapCandidates(gaps, i + 1, rr, detected, role,
                 IF CoreDue(skill, st2.seen)
                 THEN [candidates |-> Append(st2.candidates,
                                        [name |-> skill,
                                         type |-> "Course/Project",
                                         duration_weeks |-> 3,
                                         reason |-> "Core requirement for " \o role,
                                         resource |-> Get(rr.resources, skill, "None"),
                                         importance |-> importance,
                                         is_prereq |-> FALSE,
                                         prereq_depth |-> 0]),
                       seen |-> st2.seen \cup {skill}]
                 ELSE st2)

\* the first half of schedule_steps(gaps, role_req, detected, target_role) of
\* J.: the candidates list it builds before it scores them
Candidates(gaps, rr, detected, role) ==
    GapCandidates(gaps, 1, rr, detected, role, [candidates |-> <<>>, seen |-> {}]).candidates

\* ROADMAP_MODEL.predict_score(build_step_features(c, target_role)) in
\* millionths, rounded down, for the weights random.seed(123) gives and a
\* target_role without "senior" (every key of KNOWLEDGE_GRAPH): the value for
\* each <<importance, is_prereq, prereq_depth>> the knowledge graph produces
\* (duration_weeks is 2 for a prerequisite and 3 for a core step)
ScoreTable ==
    (<<490, TRUE, 1>> :> 518538) @@ (<<560, TRUE, 1>> :> 520364) @@
    (<<560, TRUE, 2>> :> 516561) @@ (<<630, TRUE, 1>> :> 522166) @@
    (<<630, TRUE, 2>> :> 518333) @@ (<<665, TRUE, 1>> :> 523057) @@
    (<<665, TRUE, 2>> :> 519209) @@ (<<665, TRUE, 4>> :> 512294) @@
    (<<900, TRUE, 3>> :> 521228) @@ (<<700, FALSE, 0>> :> 535005) @@
    (<<800, FALSE, 0>> :> 537987) @@ (<<850, FALSE, 0>> :> 539442) @@
    (<<900, FALSE, 0>> :> 540872) @@ (<<950, FALSE, 0>> :> 542277)

predict_score(c) == ScoreTable[<<c.importance, c.is_prereq, c.prereq_depth>>]

\* mutant: the jitter is random.random() * 0.1
Jitter_wide(high) == IF high THEN 10 * JitterMax ELSE 0

\* random.random() * 0.01 in millionths: a value of [0, 0.01); the model draws
\* the least one or the greatest one
Jitter(high) == IF high THEN JitterMax ELSE 0

\* the RoadmapStep built from a candidate
StepOf(c) ==
    [step |-> c.name, type |-> c.type, duration_weeks |-> c.duration_weeks,
     reason |-> c.reason, resource |-> c.resource]

\* the second half of schedule_steps of J.: the candidates are scored, sorted
\* by score and turned into steps; jittered is the set of candidate positions
\* that draw the greatest jitter
ScoreOrder(cands, jittered) ==
    LET scored == [i \in 1..Len(cands) |->
                      <<predict_score(cands[i]) + Jitter(i \in jittered), cands[i]>>]
        sorted == Items(SortDesc(scored))
    IN  [i \in 1..Len(sorted) |-> StepOf(sorted[i])]

\* ', '.join(names)
RECURSIVE Join(_, _)
Join(names, i) ==
    IF i > Len(names) THEN ""
    ELSE IF i = Len(names) THEN names[i]
    ELSE names[i] \o ", " \o Join(names, i + 1)

\* [g["skill"] for g in gaps]
GapNames(gs) == [i \in 1..Len(gs) |-> gs[i].skill]

generate_narrative(det, gs, role) ==
    IF gs = <<>>
    THEN "Your resume already aligns well with the " \o role \o
         " role. Focus on projects and portfolios to showcase your expertise."
    ELSE "For the " \o role \o " role, you are missing key skills such as " \o
         Join(GapNames(SubSeq(gs, 1, Min(3, Len(gs)))), 1) \o
         ". Start by covering their prerequisites, then move to advanced" \o
         " applications. Completing these topics will significantly strengthen" \o
         " your fit for " \o role \o "."

\* the RoadmapOutput of the "if not role_req" branch
NotFoundOutput(role, normalized) ==
    [target_role |-> role, detected_skills |-> normalized, gaps |-> <<>>,
     roadmap |-> <<>>,
     narrative |-> "Role '" \o role \o "' not found in knowledge graph."]

\* build_roadmap_logic of 11.; the locals are returned with the output
build_roadmap_logic_11(text_found, role) ==
    LET normalized == normalize_skills(simple_skill_extractor(text_found))
        rr == get_role_requirements(role)
        gs == gap_analysis(normalized, rr)
        steps == schedule_steps_11(gs, rr, normalized)
    IN  IF rr = EmptyRoleReq
        THEN [role_req |-> rr, detected |-> normalized, gaps |-> <<>>,
              output |-> NotFoundOutput(role, normalized)]
        ELSE [role_req |-> rr, detected |-> normalized, gaps |-> gs,
              output |-> [target_role |-> role, detected_skills |-> normalized,
                          gaps |-> GapNames(gs), roadmap |-> steps,
                          narrative |-> generate_narrative(normalized, gs, role)]]

\* target_role arguments: the keys of KNOWLEDGE_GRAPH and two strings that are
\* no key
RoadmapRoles == RoleNames \cup {"UX Designer", ""}

\* resume texts, by the set of skills they name
Resumes == {S \in SUBSET Range(SynonymSkills) : Cardinality(S) <= MaxDetected}

\* the sets of candidate positions that draw the greatest jitter
JitterSets(n) == {S \in SUBSET (1..n) : Cardinality(S) <= MaxJittered}

InitRoadmap ==
    /\ resume_found \in Resumes
    /\ rm_target_role \in RoadmapRoles
    /\ detected_arg = <<>>
    /\ gaps_arg = <<>>
    /\ candidates = <<>>
    /\ roadmap = <<>>
    /\ prev_roadmap = <<>>
    /\ output = NoOutput
    /\ orch_out = EmptyDict
    /\ orch_err = "none"
    /\ pcm = "input"
    /\ PrereqIdle
    /\ TreeIdle
    /\ XpIdle
    /\ SessIdle
    /\ OrchIdle

\* build_roadmap_logic(resume_text, target_role) of 11.
BuildRoadmap11 ==
    /\ pcm = "input"
    /\ LET r == build_roadmap_logic_11(resume_found, rm_target_role)
       IN  /\ role_req' = r.role_req
           /\ detected_arg' = r.detected
           /\ gaps_arg' = r.gaps
           /\ roadmap' = r.output.roadmap
           /\ output' = r.output
    /\ candidates' = <<>>
    /\ prev_roadmap' = <<>>
    /\ pcm' = "built_11"
    /\ UNCHANGED <<resume_found, rm_target_role, orch_out, orch_err>>
    /\ UNCHANGED <<dfsVars, treeVars, xpVars, sessVars, orchVars>>

\* build_roadmap_logic(resume_text, target_role) of J., a first time and then
\* once more on the same arguments
BuildRoadmapJ ==
    /\ pcm \in {"input", "built_J"}
    /\ LET normalized == normalize_skills(simple_skill_extractor(resume_found))
           rr == get_role_requirements(rm_target_role)
           gs == gap_analysis(normalized, rr)
           cands == Candidates(gs, rr, normalized, rm_target_role)
       IN  /\ role_req' = rr
           /\ detected_arg' = normalized
           /\ IF rr = EmptyRoleReq
              THEN /\ gaps_arg' = <<>>
                   /\ candidates' = <<>>
                   /\ roadmap' = <<>>
                   /\ output' = NotFoundOutput(rm_target_role, normalized)
              ELSE /\ gaps_arg' = gs
                   /\ candidates' = cands
                   /\ \E jittered \in JitterSets(Len(cands)) :
                         roadmap' = ScoreOrder(cands, jittered)
                   /\ output' =
                         [target_role |-> rm_target_role,
                          detected_skills |-> normalized,
                          gaps |-> GapNames(gs),
                          roadmap |-> roadmap',
                          narrative |-> generate_narrative(normalized, gs, rm_target_role)]
    /\ prev_roadmap' = IF pcm = "built_J" THEN roadmap ELSE <<>>
    /\ pcm' = IF pcm = "built_J" THEN "built_J_again" ELSE "built_J"
    /\ UNCHANGED <<resume_found, rm_target_role, orch_out, orch_err>>
    /\ UNCHANGED <<dfsVars, treeVars, xpVars, sessVars, orchVars>>

\* schedule_steps(gaps, role_req, detected, target_role) of J. called with the
\* requirements of a known role and a gaps list of one gap, a first time and
\* then once more on the same arguments
ScheduleStepsJ(gap) ==
    /\ rm_target_role \in RoleNames
    /\ \/ pcm = "input"
       \/ pcm = "scheduled_J" /\ gaps_arg = <<gap>>
    /\ LET rr == get_role_requirements(rm_target_role)
           normalized == normalize_skills(simple_skill_extractor(resume_found))
           cands == Candidates(<<gap>>, rr, normalized, rm_target_role)
       IN  /\ gap \in Range(gap_analysis(normalized, rr))
           /\ role_req' = rr
           /\ detected_arg' = normalized
           /\ gaps_arg' = <<gap>>
           /\ candidates' = cands
           /\ \E jittered \in JitterSets(Len(cands)) :
                 roadmap' = ScoreOrder(cands, jittered)
    /\ prev_roadmap' = IF pcm = "scheduled_J" THEN roadmap ELSE <<>>
    /\ pcm' = IF pcm = "scheduled_J" THEN "scheduled_J_again" ELSE "scheduled_J"
    /\ UNCHANGED <<resume_found, rm_target_role, output, orch_out, orch_err>>
    /\ UNCHANGED <<dfsVars, treeVars, xpVars, sessVars, orchVars>>

\* ro.model_dump(), or the dict(...) fallback: the fields of the RoadmapOutput
\* as a dict
DumpOutput(ro) ==
    [target_role |-> ro.target_role, detected_skills |-> ro.detected_skills,
     gaps |-> ro.gaps, roadmap |-> ro.roadmap, narrative |-> ro.narrative]

\* CareerMatchOrchestrator.build_roadmap(resume_text, target_role); loads says
\* whether the module of 11. and its imports (pydantic, fastapi) load
OrchBuildRoadmap(loads) ==
    /\ pcm = "input"
    /\ IF loads
       THEN LET r == build_roadmap_logic_11(resume_found, rm_target_role)
            IN  /\ role_req' = r.role_req
                /\ detected_arg' = r.detected
                /\ gaps_arg' = r.gaps
                /\ roadmap' = r.output.roadmap
                /\ output' = r.output
                /\ orch_out' = DumpOutput(r.output)
                /\ orch_err' = "none"
       ELSE /\ orch_err' = "ImportError"
            /\ UNCHANGED <<role_req, detected_arg, gaps_arg, roadmap, output, orch_out>>
    /\ candidates' = <<>>
    /\ prev_roadmap' = <<>>
    /\ pcm' = "orchestrated"
    /\ UNCHANGED <<resume_found, rm_target_role>>
    /\ UNCHANGED <<dfsVars, treeVars, xpVars, sessVars, orchVars>>

NextRoadmap ==
    \/ BuildRoadmap11
    \/ BuildRoadmapJ
    \/ \E skill \in UNION {DOMAIN KNOWLEDGE_GRAPH[r].skills : r \in RoleNames} :
          \E importance \in {KNOWLEDGE_GRAPH[r].skills[skill].importance :
                                r \in {q \in RoleNames : skill \in DOMAIN KNOWLEDGE_GRAPH[q].skills}} :
              ScheduleStepsJ([skill |-> skill, importance |-> importance])
    \/ \E loads \in BOOLEAN : OrchBuildRoadmap(loads)

SpecRoadmap == InitRoadmap /\ [][NextRoadmap]_vars

(***************************************************************************)
(* The rule-based schedule_steps on drawn catalogs: a catalog is written   *)
(* one prerequisite entry at a time, then schedule_steps of 11. is called  *)
(* on it with a gaps list and a detected list.                             *)
(***************************************************************************)
\* the lists of at most n different skills of S
RECURSIVE ListsUpTo(_, _)
ListsUpTo(S, n) ==
    IF n = 0 THEN {<<>>}
    ELSE LET shorter == ListsUpTo(S, n - 1)
         IN  shorter \cup UNION {{Append(l, x) : x \in S \ Range(l)} : l \in shorter}

\* gaps lists: each gap is a dict with the skill and an importance
GapLists ==
    {[i \in 1..Len(l) |-> [skill |-> l[i], importance |-> 0]] :
        l \in ListsUpTo(GraphSkills, MaxGaps)}

\* detected lists: schedule_steps only tests membership in detected, so one
\* list per set of skills is drawn
DetectedLists ==
    {l \in ListsUpTo(GraphSkills, MaxDetected) :
        \A i, j \in 1..Len(l) : i < j => SkillAt(l[i]) < SkillAt(l[j])}

\* the catalog gets one more prerequisite entry: p is appended to the prereq
\* list of s
WriteEntry(s, p) ==
    /\ pcr = "catalog"
    /\ TotalEdges(role_req) < MaxRuleEdges
    /\ p \notin Range(PrereqList(role_req, s))
    /\ role_req' = [role_req EXCEPT !.skills[s].prereq = Append(@, p)]
    /\ UNCHANGED <<dfs_skill, visited, order, stack, entered, dfs_steps, prereqs, pcr>>
    /\ UNCHANGED <<treeVars, xpVars, mapVars, sessVars, orchVars>>

\* schedule_steps(gaps, role_req, detected) of 11. is called on the catalog
ScheduleRule(gaps, detected) ==
    /\ pcr = "catalog"
    /\ gaps_arg' = gaps
    /\ detected_arg' = detected
    /\ roadmap' = schedule_steps_11(gaps, role_req, detected)
    /\ pcr' = "scheduled"
    /\ UNCHANGED <<role_req, dfs_skill, visited, order, stack, entered, dfs_steps, prereqs>>
    /\ UNCHANGED <<resume_found, rm_target_role, candidates, prev_roadmap, output,
                   orch_out, orch_err, pcm>>
    /\ UNCHANGED <<treeVars, xpVars, sessVars, orchVars>>

NextSchedule ==
    \/ \E s \in Range(CatalogKeys), p \in GraphSkills : WriteEntry(s, p)
    \/ \E gaps \in GapLists, detected \in DetectedLists : ScheduleRule(gaps, detected)

SpecSchedule == InitPrereq /\ [][NextSchedule]_vars

(***************************************************************************)
(* CareerMatchOrchestrator: the lazy module cache and the eight wrappers.  *)
(* A file is the pair of its directory under ai-features/ and its name.    *)
(* A feature's result is held by the keys of the dict the wrapper builds   *)
(* from it; what the feature computes is out of the orchestrator's hands   *)
(* and is drawn: the module's import raises or not, its call raises or not.*)
(***************************************************************************)
FeatureFile(dir, name) == [dir |-> dir, name |-> name]

\* the .py files of ai-features/ in the repository
RepoFiles ==
    {FeatureFile("1. CV Parsing & Section Detection", "app_slm_trial.py"),
     FeatureFile("10. Resume Polishing Suggestions", "resume_polish.py"),
     FeatureFile("11. Transparent Career Roadmap Generation", "roadmap_generation.py"),
     FeatureFile("20. Engagement Prediction", "engagement_prediction.py"),
     FeatureFile("4. Bias Detection & Fairness Auditing", "bias_detection.py"),
     FeatureFile("7. Skill Gap Course Recommender", "course_recommender.py"),
     FeatureFile("8. Dataset Generation", "dataset_generation.py"),
     FeatureFile("A. CV Parsing & Section Detection", "app_slm_trial.py"),
     FeatureFile("B. Adaptive Recommendation System", "adaptive_recommendation.py"),
     FeatureFile("D. Bias Detection & Fairness Auditing", "bias_detection.py"),
     FeatureFile("E. Gamified Skill Tree", "gamified_skill_tree.py"),
     FeatureFile("F. Micro Project Recommender", "micro_project_recommender.py"),
     FeatureFile("H. Explainable Scoring Engine", "scoring_engine.py"),
     FeatureFile("I. Resume Polishing Suggestions", "resume_polish.py"),
     FeatureFile("J. Transparent Career Roadmap Generation", "roadmap_generation.py"),
     FeatureFile("M. Dynamic Knowledge Graph", "knowledge_graph.py"),
     FeatureFile("", "Auto_Generated_Project_Skeletons_(phase 1).py"),
     FeatureFile("", "Resume_Polishing_Suggestions.py"),
     FeatureFile("", "adaptive_recommendation_system.py")}

\* the repository as it is, and with one feature file taken away
Layouts ==
    {RepoFiles,
     RepoFiles \ {FeatureFile("B. Adaptive Recommendation System", "adaptive_recommendation.py")}}

\* the public methods of CareerMatchOrchestrator
Methods ==
    {"score_cv", "build_roadmap", "recommend_micro_projects", "adaptive_recommend",
     "polish_resume_sentence", "assess_engagement", "query_knowledge_graph",
     "audit_fairness"}

\* the arguments of self._module(name, filename) in each method
ModuleOf(m) ==
    CASE m = "score_cv" ->
            [name |-> "explainable_scoring_engine",
             file |-> FeatureFile("9. Explainable Scoring Engine", "scoring_engine.py")]
      [] m = "build_roadmap" ->
            [name |-> "transparent_career_roadmap",
             file |-> FeatureFile("11. Transparent Career Roadmap Generation",
                                  "roadmap_generation.py")]
      [] m = "recommend_micro_projects" ->
            [name |-> "micro_project_recommender",
             file |-> FeatureFile("6. Micro Project Recommender", "micro_project_recommender.py")]
      [] m = "adaptive_recommend" ->
            [name |-> "adaptive_recommendation_system",
             file |-> FeatureFile("2. Adaptive Recommendation System",
                                  "adaptive_recommendation.py")]
      [] m = "polish_resume_sentence" ->
            [name |-> "resume_polish",
             file |-> FeatureFile("10. Resume Polishing Suggestions", "resume_polish.py")]
      [] m = "assess_engagement" ->
            [name |-> "engagement_prediction",
             file |-> FeatureFile("20. Engagement Prediction", "engagement_prediction.py")]
      [] m = "query_knowledge_graph" ->
            [name |-> "knowledge_graph",
             file |-> FeatureFile("21. Dynamic Knowledge Graph", "knowledge_graph.py")]
      [] OTHER ->
            [name |-> "bias_detection",
             file |-> FeatureFile("4. Bias Detection & Fairness Auditing", "bias_detection.py")]

ModuleNames == {ModuleOf(m).name : m \in Methods}

\* the module-level names, among those the wrappers ask for, that the file defines
Exports(path) ==
    CASE path = FeatureFile("H. Explainable Scoring Engine", "scoring_engine.py") ->
            {"infer_essential_skills", "completeness_score", "relevance_score",
             "strength_score", "make_explanation"}
      [] path.name = "roadmap_generation.py" -> {"build_roadmap_logic"}
      [] path = FeatureFile("F. Micro Project Recommender", "micro_project_recommender.py") ->
            {"infer_essential_skills", "recommend_projects", "proj_df"}
      [] path = FeatureFile("B. Adaptive Recommendation System", "adaptive_recommendation.py") ->
            {"build_user_state_from_cv", "update_statuses", "get_ai_recommendations"}
      [] path = FeatureFile("10. Resume Polishing Suggestions", "resume_polish.py") ->
            {"polish_resume_sentence_v2"}
      [] path = FeatureFile("20. Engagement Prediction", "engagement_prediction.py") ->
            {"generate_synthetic_engagement_data", "train_engagement_model",
             "check_user_engagement"}
      [] path = FeatureFile("M. Dynamic Knowledge Graph", "knowledge_graph.py") ->
            {"build_sample_graph", "courses_teaching_skill", "projects_requiring_skill"}
      [] path = FeatureFile("4. Bias Detection & Fairness Auditing", "bias_detection.py") ->
            {"fairness_table"}
      [] OTHER -> {}

\* _load_module: the paths 'path' can end up as; the direct path if it exists,
\* else a match of rglob(name) (found[0], in the order the file system lists
\* them), none if there is no match (FileNotFoundError)
FoundPaths(file, fs) ==
    IF file \in fs THEN {file} ELSE {f \in fs : f.name = file.name}

\* mutant: the cache is never consulted
CacheHit_never(key, cache) == FALSE

\* key in self._modules
CacheHit(key, cache) == key \in DOMAIN cache

\* the groups audit_fairness looks for in candidate_df.columns
FairnessGroups == {"gender", "education_tier", "background"}

\* the arguments a method is called with, as far as the wrapper looks at them
OrchArgs(m) ==
    CASE m = "query_knowledge_graph" ->
            {"courses_for_skill", "projects_for_skill", "skills_for_project", "skills"}
      [] m = "audit_fairness" -> {{"score"}, {"gender", "score"}}
      [] m = "adaptive_recommend" ->
            {[cv_features |-> cv, target_role |-> "data_scientist", top_k |-> MaxTopK] :
                cv \in SessCvs}
      [] OTHER -> {"args"}

\* the attributes of the module the try block of the method reads, in order
Needs(m, arg) ==
    CASE m = "score_cv" ->
            <<"completeness_score", "relevance_score", "strength_score", "make_explanation">>
      [] m = "build_roadmap" -> <<"build_roadmap_logic">>
      [] m = "recommend_micro_projects" -> <<"recommend_projects", "proj_df">>
      [] m = "adaptive_recommend" ->
            <<"build_user_state_from_cv", "update_statuses", "get_adaptive_recommendations">>
      [] m = "polish_resume_sentence" -> <<"polish_resume_sentence_v2">>
      [] m = "assess_engagement" ->
            <<"generate_synthetic_engagement_data", "train_engagement_model",
              "check_user_engagement">>
      [] m = "query_knowledge_graph" ->
            <<"build_sample_graph">> \o
            (CASE arg = "courses_for_skill" -> <<"courses_teaching_skill">>
               [] arg = "projects_for_skill" -> <<"projects_requiring_skill">>
               [] arg = "skills_for_project" -> <<"find_skills_for_project">>
               [] OTHER -> <<>>)
      [] OTHER -> IF arg \cap FairnessGroups # {} THEN <<"fairness_table">> ELSE <<>>

\* the "error" value of the except branch of the method
ErrorKey(m) ==
    CASE m = "score_cv" -> "scoring_failed"
      [] m = "build_roadmap" -> "roadmap_failed"
      [] m = "recommend_micro_projects" -> "micro_recs_failed"
      [] m = "adaptive_recommend" -> "adaptive_failed"
      [] m = "polish_resume_sentence" -> "polish_failed"
      [] m = "assess_engagement" -> "engagement_check_failed"
      [] m = "query_knowledge_graph" -> "kg_query_failed"
      [] OTHER -> "fairness_failed"

ErrorDict(code, message) == [error |-> code, message |-> message]

\* a value a feature computed
Opaque == "<value>"

\* the dict the try block returns when nothing in it raises
Success(m, arg) ==
    CASE m = "score_cv" -> [k \in {"scores", "subscores", "explanation"} |-> Opaque]
      [] m = "build_roadmap" ->
            [k \in {"target_role", "detected_skills", "gaps", "roadmap", "narrative"} |-> Opaque]
      [] m = "recommend_micro_projects" -> [k \in {"essentials", "recommendations"} |-> Opaque]
      [] m = "adaptive_recommend" ->
            LET us == update_statuses(build_user_state_from_cv(arg.cv_features)).state
            IN  [user_state |-> us,
                 recommendations |->
                     get_adaptive_recommendations(us, arg.target_role, arg.top_k).recs]
      [] m = "polish_resume_sentence" -> [k \in {"original", "polished"} |-> Opaque]
      [] m = "assess_engagement" ->
            [k \in {"prob_dropoff", "decision", "model_accuracy"} |-> Opaque]
      [] m = "query_knowledge_graph" ->
            (CASE arg = "courses_for_skill" -> [k \in {"courses"} |-> Opaque]
               [] arg = "projects_for_skill" -> [k \in {"projects"} |-> Opaque]
               [] arg = "skills_for_project" -> [k \in {"skills"} |-> Opaque]
               [] OTHER -> ErrorDict("unknown_query",
                                     "unknown query_type '" \o arg \o "'"))
      [] OTHER -> [k \in arg \cap FairnessGroups |-> Opaque]

\* the part of the method after self._module(...) returned the module loaded
\* from path; fails says whether a call into the feature raises
Body(m, path, arg, fails) ==
    LET needs == Needs(m, arg)
        missing == {i \in 1..Len(needs) : needs[i] \notin Exports(path)}
        first == needs[CHOOSE i \in missing : \A j \in missing : i <= j]
    IN  IF missing # {}
        THEN IF m = "polish_resume_sentence"
             THEN ErrorDict("not_supported", "polish function not available in module")
             ELSE ErrorDict(ErrorKey(m),
                            "module '" \o ModuleOf(m).name \o "' has no attribute '"
                                \o first \o "'")
        ELSE IF fails THEN ErrorDict(ErrorKey(m), "str(e)")
        ELSE Success(m, arg)

\* no _load_module call has raised
NoFailedLoads == [count |-> 0, last |-> ""]

\* CareerMatchOrchestrator(): the instance is constructed over a layout of
\* ai-features/
InitOrch ==
    /\ files \in Layouts
    /\ modules = EmptyDict
    /\ prev_modules = EmptyDict
    /\ disk_loads = [n \in ModuleNames |-> 0]
    /\ failed_loads = NoFailedLoads
    /\ orch_method = ""
    /\ SessIdle
    /\ TreeIdle
    /\ XpIdle
    /\ RoadIdle

\* what a method call leaves alone
OrchFrame ==
    /\ UNCHANGED <<files, resume_found, rm_target_role, detected_arg, gaps_arg, candidates,
                   roadmap, prev_roadmap, output, pcm>>
    /\ UNCHANGED <<prereqVars, treeVars, xpVars, sessVars>>

\* a method call whose self._module(...) raises: no feature file is found, or
\* the import of the file raises; the exception leaves the method
OrchLoadRaises(m, exc) ==
    /\ ~CacheHit(ModuleOf(m).name, modules)
    /\ failed_loads.count < MaxFailedLoads
    /\ \/ exc = "FileNotFoundError" /\ FoundPaths(ModuleOf(m).file, files) = {}
       \/ exc = "ImportError" /\ FoundPaths(ModuleOf(m).file, files) # {}
    /\ failed_loads' = [count |-> failed_loads.count + 1, last |-> ModuleOf(m).name]
    /\ prev_modules' = modules
    /\ orch_method' = m
    /\ orch_err' = exc
    /\ orch_out' = EmptyDict
    /\ UNCHANGED <<modules, disk_loads>>
    /\ OrchFrame

\* a method call whose self._module(...) returns: from the cache, or after
\* _load_module loaded the file and the cache took it
OrchCall(m, arg, fails) ==
    /\ \E path \in (IF CacheHit(ModuleOf(m).name, modules)
                    THEN {modules[ModuleOf(m).name]}
                    ELSE FoundPaths(ModuleOf(m).file, files)) :
          /\ IF CacheHit(ModuleOf(m).name, modules)
             THEN UNCHANGED <<modules, disk_loads>>
             ELSE /\ modules' = (ModuleOf(m).name :> path) @@ modules
                  /\ disk_loads' = [disk_loads EXCEPT ![ModuleOf(m).name] = @ + 1]
          /\ orch_out' = Body(m, path, arg, fails)
    /\ prev_modules' = modules
    /\ orch_method' = m
    /\ orch_err' = "none"
    /\ UNCHANGED failed_loads
    /\ OrchFrame

NextOrch ==
    \/ \E m \in Methods, exc \in {"FileNotFoundError", "ImportError"} : OrchLoadRaises(m, exc)
    \/ \E m \in Methods : \E arg \in OrchArgs(m), fails \in BOOLEAN : OrchCall(m, arg, fails)

SpecOrch == InitOrch /\ [][NextOrch]_vars

(***************************************************************************)
(* Properties                                                              *)
(***************************************************************************)
\* update_statuses has returned normally on user_state
Updated == pc = "updated" /\ err = "none"

\* get_adaptive_recommendations has returned normally
Recommended == pc = "recommended" /\ err = "none"

Xp(sid) == user_state[sid].current_xp

Status(sid) == user_state[sid].status

Required(sid) == SKILL_DEFS[sid].required_xp

Prereqs(sid) == {SKILL_DEFS[sid].depends_on[i] : i \in 1..Len(SKILL_DEFS[sid].depends_on)}

\* some direct prerequisite of sid holds less than 70% of its own required_xp
PrereqBelow(sid) == \E p \in Prereqs(sid) : 10 * Xp(p) < 7 * Required(p)

\* C1 as stated: after update_statuses, a skill with a direct prerequisite below
\* 70% of that prerequisite's required_xp is locked (never unlocked, in_progress
\* or completed).
C1_UnlockGating_AsStated ==
    Updated => \A sid \in Skills : PrereqBelow(sid) => Status(sid) = "locked"

\* C1 amended: after update_statuses, a skill with a direct prerequisite below
\* 70% of that prerequisite's required_xp is never unlocked or in_progress: it is
\* locked, unless its own XP has reached its required_xp, and then it is completed.
C1_UnlockGating ==
    Updated =>
        \A sid \in Skills :
            PrereqBelow(sid) =>
                Status(sid) = (IF Xp(sid) >= Required(sid) THEN "completed" ELSE "locked")

\* a skill that has XP of its own stays locked behind a prerequisite with XP
\* just below the threshold
C1_Witness ==
    /\ Updated
    /\ \E sid \in Skills :
          /\ PrereqBelow(sid)
          /\ \E p \in Prereqs(sid) : 10 * Xp(p) >= 5 * Required(p)
          /\ Xp(sid) > 0
          /\ Xp(sid) < Required(sid)
          /\ Status(sid) = "locked"

\* C2: after update_statuses, every skill whose XP is >= its required_xp is
\* completed, whatever the XP of its prerequisites.
C2_CompletionDominance ==
    Updated => \A sid \in Skills : Xp(sid) >= Required(sid) => Status(sid) = "completed"

\* a skill is completed while a prerequisite of it is below the threshold
C2_Witness ==
    /\ Updated
    /\ \E sid \in Skills :
          PrereqBelow(sid) /\ Xp(sid) >= Required(sid) /\ Status(sid) = "completed"

\* C3 as stated: update_statuses gives every catalog skill a status for any XP
\* map, the empty map and maps that omit skills included, and raises no error.
C3_StatusTotality ==
    pc = "updated" =>
        /\ err = "none"
        /\ \A sid \in Skills : sid \in DOMAIN user_state /\ Status(sid) \in Statuses

\* the status the rule of the specification gives skill sid under the XP of user_state
RuleStatus(sid) ==
    IF Xp(sid) >= Required(sid) THEN "completed"
    ELSE IF \A p \in Prereqs(sid) : 10 * Xp(p) >= 7 * Required(p)
         THEN (IF Xp(sid) > 0 THEN "in_progress" ELSE "unlocked")
         ELSE "locked"

\* C4: after update_statuses every skill has the status of the rule: completed if
\* xp >= required_xp; else in_progress (xp > 0) or unlocked (xp = 0) if every
\* direct prerequisite holds >= 70% of its required_xp, equality included; else
\* locked.  With python at 70 of 100 and pandas at 0: python is in_progress and
\* pandas is unlocked.
C4_StatusRule ==
    Updated =>
        /\ \A sid \in Skills : Status(sid) = RuleStatus(sid)
        /\ (Xp("python") = 70 /\ Xp("pandas") = 0) =>
              (Status("python") = "in_progress" /\ Status("pandas") = "unlocked")

\* the boundary example: the prerequisite sits exactly on its threshold
C4_Witness ==
    /\ Updated
    /\ Xp("python") = 70
    /\ Xp("pandas") = 0
    /\ Status("python") = "in_progress"
    /\ Status("pandas") = "unlocked"

\* locked < unlocked < in_progress < completed
Rank(status) ==
    CASE status = "locked" -> 0
      [] status = "unlocked" -> 1
      [] status = "in_progress" -> 2
      [] OTHER -> 3

\* C5: along XP increases, each followed by update_statuses, no skill's status
\* ever moves to a lower rank.
C5_ForwardOnly ==
    [][\A sid \in Skills : Rank(user_state'[sid].status) >= Rank(user_state[sid].status)]_vars

\* after XP increases one skill has gone from locked all the way to completed
\* and another from locked to in_progress
C5_Witness ==
    /\ Updated
    /\ Status("data_viz") = "completed"
    /\ Status("model_deployment") = "in_progress"
    /\ Xp("python") = 0

\* user_state as build_user_state_from_cv would hold the same XP: every status "locked"
Fresh(us) == [sid \in DOMAIN us |-> UserSkillState(us[sid].current_xp)]

\* C6: a second update_statuses in a row changes nothing, and the statuses a
\* call leaves are those it leaves on a dict with the same XP and every stored
\* status reset: they depend on the XP alone.
C6_Idempotent ==
    /\ [][(pc = "updated" /\ pc' = "updated") => (user_state' = user_state /\ err' = err)]_vars
    /\ [](Updated => user_state = update_statuses(Fresh(user_state)).state)

\* a dict that came with a stored status the XP does not support has been updated
C6_Witness ==
    /\ Updated
    /\ \E sid \in Skills : Xp(sid) = 0 /\ Status(sid) = "locked"
    /\ \E sid \in Skills : Xp(sid) = 70 /\ Status(sid) = "in_progress"

\* the evidence record handed to compute_initial_xp_for_skill
Feat == xp_feat[xp_skill]

NonNegative == Feat.years_experience >= 0 /\ Feat.num_projects >= 0

\* min(50, 20 * years) + min(30, 10 * projects) + (20 if has_cert else 0), doubled
DoubledSum ==
    (IF Feat.years_experience >= 100 THEN 100 ELSE Feat.years_experience)
    + (IF Feat.num_projects >= 3 THEN 60 ELSE 20 * Feat.num_projects)
    + (IF Feat.has_cert THEN 40 ELSE 0)

\* C7: for non-negative evidence compute_initial_xp_for_skill returns the integer
\* part of min(required_xp, min(50, 20 * years) + min(30, 10 * projects) +
\* (20 if has_cert else 0)), a value in [0, required_xp]; without an evidence
\* entry it returns 0.
C7_XpFormula ==
    pcx \in {"done", "redone"} =>
        /\ xp_skill \notin DOMAIN xp_feat => xp_out = 0
        /\ (HasRecord /\ NonNegative) =>
              /\ xp_out = (IF DoubledSum <= 2 * Required(xp_skill)
                           THEN DoubledSum \div 2 ELSE Required(xp_skill))
              /\ xp_out >= 0
              /\ xp_out <= Required(xp_skill)

\* the evidence sum has a fractional part and lies above the skill's required_xp
C7_Witness ==
    /\ pcx = "done"
    /\ HasRecord
    /\ NonNegative
    /\ DoubledSum % 2 = 1
    /\ DoubledSum > 2 * Required(xp_skill)
    /\ xp_out = Required(xp_skill)

\* C8: raising a single evidence field (more years, more projects, has_cert from
\* false to true) never lowers the value compute_initial_xp_for_skill returns.
C8_XpMonotone ==
    pcx = "redone" => xp_out >= xp_prev

\* a field of non-negative evidence that holds a certificate has been raised
\* and the XP recomputed to a larger value, still below required_xp
C8_Witness ==
    /\ pcx = "redone"
    /\ HasRecord
    /\ NonNegative
    /\ Feat.has_cert
    /\ xp_out > xp_prev
    /\ xp_out < Required(xp_skill)

\* the skill the i-th returned item targets
RecSkill(i) == CONTENT_DB[recommendations[i]].skill_id

\* C9: every item get_adaptive_recommendations returns targets a skill whose
\* roles contain target_role and whose status is unlocked or in_progress.
C9_Eligibility ==
    Recommended =>
        \A i \in 1..Len(recommendations) :
            /\ target_role \in SKILL_DEFS[RecSkill(i)].roles
            /\ Status(RecSkill(i)) \in {"unlocked", "in_progress"}

\* items are returned while a completed skill of the role, which has content of
\* the advanced tier, is passed over
C9_Witness ==
    /\ Recommended
    /\ Len(recommendations) >= 2
    /\ target_role \in SKILL_DEFS["pandas"].roles
    /\ Status("pandas") = "completed"
    /\ \A i \in 1..Len(recommendations) : RecSkill(i) # "pandas"

\* C10: an item returned for a skill with XP < 0.3 * required_xp is a beginner
\* course; one returned for a skill with XP >= 0.3 * required_xp is an advanced
\* project.
C10_TierSelection ==
    Recommended =>
        \A i \in 1..Len(recommendations) :
            LET item == CONTENT_DB[recommendations[i]]
            IN  IF 10 * Xp(item.skill_id) < 3 * Required(item.skill_id)
                THEN item.xp_level = "beginner" /\ item.type = "course"
                ELSE item.xp_level = "advanced" /\ item.type = "project"

\* one call returns a beginner course and an advanced project, the project for
\* a skill exactly on the practice threshold
C10_Witness ==
    /\ Recommended
    /\ \E i, j \in 1..Len(recommendations) :
          /\ CONTENT_DB[recommendations[i]].xp_level = "beginner"
          /\ CONTENT_DB[recommendations[j]].xp_level = "advanced"
          /\ 10 * Xp(RecSkill(j)) = 3 * Required(RecSkill(j))

\* the tier the selector asks for a skill at its current XP
Tier(sid) == IF 10 * Xp(sid) < 3 * Required(sid) THEN "beginner" ELSE "advanced"

\* the content items of a skill's tier
TierItems(sid) ==
    {c \in ContentIds : CONTENT_DB[c].skill_id = sid /\ CONTENT_DB[c].xp_level = Tier(sid)}

\* the skill passes the role and status filters of the call
Passes(sid) ==
    /\ target_role \in SKILL_DEFS[sid].roles
    /\ Status(sid) \in {"unlocked", "in_progress"}

\* position of a skill in SKILL_DEFS iteration order
SkillIndex(sid) == CHOOSE i \in 1..Len(SkillOrder) : SkillOrder[i] = sid

\* the skills that yield a candidate item
CandidateSkills == {sid \in Skills : Passes(sid) /\ TierItems(sid) # {}}

\* the number of candidates that come before a skill in SKILL_DEFS order
CandidatesBefore(sid) ==
    Cardinality({t \in CandidateSkills : SkillIndex(t) < SkillIndex(sid)})

\* C11: for top_k >= 0, get_adaptive_recommendations returns at most top_k
\* items, at most one per skill, and the list is exactly the first
\* min(top_k, n) of all n candidates in SKILL_DEFS iteration order.
C11_OrderAndLength ==
    (Recommended /\ top_k >= 0) =>
        LET m == Min(top_k, Cardinality(CandidateSkills))
        IN  /\ Len(recommendations) = m
            /\ Len(recommendations) <= top_k
            /\ \A i, j \in 1..Len(recommendations) : i # j => RecSkill(i) # RecSkill(j)
            /\ \A i \in 1..m :
                  /\ RecSkill(i) \in CandidateSkills
                  /\ CandidatesBefore(RecSkill(i)) = i - 1
                  /\ recommendations[i] \in TierItems(RecSkill(i))

\* three skills yield a candidate and top_k = 2 cuts the third off
C11_Witness ==
    /\ Recommended
    /\ top_k = 2
    /\ Cardinality(CandidateSkills) = 3
    /\ Len(recommendations) = 2

\* an eligible skill whose tier has no content item
MissingContent(sid) == Passes(sid) /\ TierItems(sid) = {}

\* C12: an eligible skill with no content item of its chosen tier emits
\* nothing and raises no error, and the skills after it are still processed.
C12_MissingContent ==
    (pc = "recommended" /\ DOMAIN user_state = Skills) =>
        /\ err = "none"
        /\ \A i \in 1..Len(recommendations) : recommendations[i] \in ContentIds
        /\ \A sid \in Skills :
              MissingContent(sid) =>
                  /\ \A i \in 1..Len(recommendations) : RecSkill(i) # sid
                  /\ \A t \in CandidateSkills :
                        (SkillIndex(t) > SkillIndex(sid) /\ CandidatesBefore(t) < top_k)
                            => \E i \in 1..Len(recommendations) : RecSkill(i) = t

\* python is in progress past the practice threshold, has no advanced item,
\* and an item of a later skill is returned
C12_Witness ==
    /\ pc = "recommended"
    /\ DOMAIN user_state = Skills
    /\ MissingContent("python")
    /\ Tier("python") = "advanced"
    /\ \E i \in 1..Len(recommendations) : SkillIndex(RecSkill(i)) > SkillIndex("python")

\* the direct prerequisites the catalog in role_req names for a skill
DirectPrereqs(s) == Range(PrereqList(role_req, s))

\* closure of a set of skills under the prerequisite edges
RECURSIVE PrereqClosure(_)
PrereqClosure(S) ==
    LET more == S \cup UNION {DirectPrereqs(s) : s \in S}
    IN  IF more = S THEN S ELSE PrereqClosure(more)

\* the skills reachable from s through one or more prerequisite edges
Reachable(s) == PrereqClosure(DirectPrereqs(s))

\* no skill is reachable from itself
Acyclic == \A s \in GraphSkills : s \notin Reachable(s)

\* resolve_prereqs has returned
Resolved == pcr = "returned"

\* the step-by-step call and the function resolve_prereqs return the same list
DfsAgrees == Resolved => prereqs = resolve_prereqs(dfs_skill, role_req)

\* C13: on an acyclic prerequisite graph resolve_prereqs(skill, role_req)
\* returns each skill reachable from skill through prerequisite edges exactly
\* once, never skill itself, and every prerequisite before any listed skill
\* that depends on it.
C13_DependencySafe ==
    (Resolved /\ Acyclic) =>
        /\ Range(prereqs) = Reachable(dfs_skill)
        /\ \A i, j \in 1..Len(prereqs) : i # j => prereqs[i] # prereqs[j]
        /\ dfs_skill \notin Range(prereqs)
        /\ \A i, j \in 1..Len(prereqs) :
              prereqs[i] \in Reachable(prereqs[j]) => i < j

\* a diamond: the skill has two prerequisites that share a third one
C13_Witness ==
    /\ Resolved
    /\ Acyclic
    /\ Len(prereqs) = 3
    /\ \E a, b \in DirectPrereqs(dfs_skill) :
          a # b /\ DirectPrereqs(a) \cap DirectPrereqs(b) # {}

\* C14: on every finite prerequisite graph, cycles and self-loops included,
\* resolve_prereqs terminates and visits each skill at most once: the body of
\* dfs runs at most once per skill, a running call always has a next step, and
\* it takes at most one step per prerequisite entry and per skill.
C14_Termination ==
    /\ \A i, j \in 1..Len(entered) : i # j => entered[i] # entered[j]
    /\ Range(entered) = visited
    /\ pcr = "dfs" => stack # <<>>
    /\ dfs_steps <= TotalEdges(role_req) + Cardinality(GraphSkills)
    /\ Resolved => stack = <<>> /\ Range(order) = visited

\* a call returns on a catalog in which the skill is its own prerequisite and
\* lies on a longer cycle as well
C14_Witness ==
    /\ Resolved
    /\ dfs_skill \in DirectPrereqs(dfs_skill)
    /\ \E p \in Reachable(dfs_skill) \ {dfs_skill} : dfs_skill \in DirectPrereqs(p)
    /\ prereqs # <<>>

\* a build_roadmap_logic call of either variant has returned
Built ==
    \/ pcm \in {"built_11", "built_J", "built_J_again"}
    \/ pcm = "orchestrated" /\ orch_err = "none"

\* a score-ordered schedule_steps call has returned
ScheduledJ == pcm \in {"built_J", "built_J_again", "scheduled_J", "scheduled_J_again"}

\* a schedule_steps call of either variant has returned
Scheduled == Built \/ ScheduledJ

\* the positions of the roadmap at which a step names the skill
StepsNamed(rm, name) == {i \in 1..Len(rm) : rm[i].step = name}

\* the preparation steps of the roadmap
IsPreparation(st) == st.type = "Course/Preparation"

\* C15: in the list schedule_steps returns no two steps have the same step
\* name, and no preparation step names a skill of the detected list.
C15_Deduplication ==
    Scheduled =>
        /\ \A i, j \in 1..Len(roadmap) : i # j => roadmap[i].step # roadmap[j].step
        /\ \A i \in 1..Len(roadmap) :
              IsPreparation(roadmap[i]) => roadmap[i].step \notin Range(detected_arg)

\* two gaps share the prerequisites Probability & Statistics and Python, Python
\* is detected, and Probability & Statistics is scheduled
C15_Witness ==
    /\ Scheduled
    /\ detected_arg = <<"Python">>
    /\ \E g, h \in 1..Len(gaps_arg) :
          /\ g # h
          /\ {"Probability & Statistics", "Python"} \subseteq
                 Reachable(gaps_arg[g].skill) \cap Reachable(gaps_arg[h].skill)
    /\ StepsNamed(roadmap, "Probability & Statistics") # {}

\* the gap whose processing schedules a prerequisite: the first gap of the list
\* that reaches it through prerequisite edges ("" if none does)
SchedulingGap(p) ==
    LET reaching == {i \in 1..Len(gaps_arg) : p \in Reachable(gaps_arg[i].skill)}
    IN  IF reaching = {} THEN ""
        ELSE gaps_arg[CHOOSE i \in reaching : \A k \in reaching : i <= k].skill

\* the step is a record as the roadmap scheduler is to build it
StepRecordHolds(st) ==
    IF IsPreparation(st)
    THEN /\ st.duration_weeks = 2
         /\ st.reason = "Prerequisite for " \o SchedulingGap(st.step)
    ELSE /\ st.type = "Course/Project"
         /\ st.duration_weeks = 3
         /\ st.reason = "Core requirement for " \o rm_target_role

\* the steps of the score-ordered variant are such records
StepRecordsJ ==
    pcm \in {"built_J", "built_J_again"} =>
        \A i \in 1..Len(roadmap) : StepRecordHolds(roadmap[i])

\* C16: in each roadmap_generation variant every preparation step has duration
\* 2 weeks and reason 'Prerequisite for <gap skill>' naming the gap whose
\* processing scheduled it, and every core step has duration 3 weeks and
\* reason 'Core requirement for <target role>', the role name passed to
\* build_roadmap_logic.
C16_StepRecords ==
    Built => \A i \in 1..Len(roadmap) : StepRecordHolds(roadmap[i])

\* C17: gap_analysis returns exactly the role's required skills that are not in
\* detected, each once, by non-increasing importance, and the gaps field of
\* the roadmap output lists those names in the same order.
C17_GapAnalysis ==
    (Built /\ rm_target_role \in RoleNames) =>
        /\ Range(GapNames(gaps_arg)) = DOMAIN role_req.skills \ Range(detected_arg)
        /\ \A i, j \in 1..Len(gaps_arg) :
              /\ i # j => gaps_arg[i].skill # gaps_arg[j].skill
              /\ i < j => gaps_arg[i].importance >= gaps_arg[j].importance
        /\ \A i \in 1..Len(gaps_arg) :
              gaps_arg[i].importance = role_req.skills[gaps_arg[i].skill].importance
        /\ output.gaps = GapNames(gaps_arg)

\* a required skill is detected and the others are reported in an order that
\* is not the dict order of the knowledge graph
C17_Witness ==
    /\ Built
    /\ rm_target_role = "Machine Learning Engineer"
    /\ detected_arg = <<"Model Deployment">>
    /\ output.gaps = <<"Deep Learning", "Machine Learning Basics", "Data Engineering">>
    /\ role_req.keys[1] = "Machine Learning Basics"

\* C18: for every resume text and every target_role that is no key of the
\* knowledge graph, build_roadmap_logic returns an output with an empty
\* roadmap, empty gaps and the role-not-found narrative, and
\* CareerMatchOrchestrator.build_roadmap then returns a dict that has the key
\* 'target_role' and no key 'error'.
C18_UnknownRole ==
    (Built /\ rm_target_role \notin DOMAIN KNOWLEDGE_GRAPH) =>
        /\ output.target_role = rm_target_role
        /\ output.roadmap = <<>>
        /\ output.gaps = <<>>
        /\ output.narrative =
              "Role '" \o rm_target_role \o "' not found in knowledge graph."
        /\ pcm = "orchestrated" =>
              /\ "target_role" \in DOMAIN orch_out
              /\ "error" \notin DOMAIN orch_out
              /\ orch_out.roadmap = <<>>

\* the orchestrator returns the not-found output for a resume that names a skill
C18_Witness ==
    /\ pcm = "orchestrated"
    /\ orch_err = "none"
    /\ rm_target_role = "UX Designer"
    /\ resume_found # {}
    /\ orch_out.detected_skills # <<>>
    /\ orch_out.narrative = "Role 'UX Designer' not found in knowledge graph."

\* the score-ordered schedule_steps has returned twice on the same arguments
RanTwice == pcm \in {"built_J_again", "scheduled_J_again"}

\* the steps of a roadmap, as a set
StepSet(rm) == Range(rm)

\* the candidate named first comes before the one named second in the roadmap
Before(rm, a, b) ==
    \A i \in StepsNamed(rm, a), j \in StepsNamed(rm, b) : i < j

\* C19: two runs of the score-ordered schedule_steps on identical (gaps,
\* role_req, detected, target_role) return the same set of steps with the same
\* fields, and any two steps whose model scores differ by more than 0.01 are
\* in the same relative order in both runs, the higher-scored one first.
C19_Determinism ==
    RanTwice =>
        /\ StepSet(roadmap) = StepSet(prev_roadmap)
        /\ Len(roadmap) = Len(prev_roadmap)
        /\ \A a, b \in 1..Len(candidates) :
              predict_score(candidates[a]) - predict_score(candidates[b]) > 10000 =>
                  /\ Before(roadmap, candidates[a].name, candidates[b].name)
                  /\ Before(prev_roadmap, candidates[a].name, candidates[b].name)

\* the two runs return different orders, and a pair of steps is more than 0.01
\* apart in score
C19_Witness ==
    /\ RanTwice
    /\ roadmap # prev_roadmap
    /\ \E a, b \in 1..Len(candidates) :
          predict_score(candidates[a]) - predict_score(candidates[b]) > 10000

\* the gap a preparation step was scheduled for, read off its reason
PreparesFor(st, g) == IsPreparation(st) /\ st.reason = "Prerequisite for " \o g

\* C20: in the list the score-ordered schedule_steps returns every preparation
\* step scheduled for a gap comes before that gap's own step; for the gap list
\* [Deep Learning] of Machine Learning Engineer with nothing detected the
\* roadmap has Linear Algebra, Machine Learning Basics and Deep Learning, the
\* first two before Deep Learning.
C20_PrereqsPrecedeGap ==
    ScheduledJ =>
        /\ \A i, j \in 1..Len(roadmap) :
              PreparesFor(roadmap[i], roadmap[j].step) => i < j
        /\ (/\ gaps_arg = <<[skill |-> "Deep Learning", importance |-> 950]>>
            /\ rm_target_role = "Machine Learning Engineer"
            /\ detected_arg = <<>>) =>
               /\ \A n \in {"Linear Algebra", "Machine Learning Basics", "Deep Learning"} :
                     StepsNamed(roadmap, n) # {}
               /\ Before(roadmap, "Linear Algebra", "Deep Learning")
               /\ Before(roadmap, "Machine Learning Basics", "Deep Learning")

\* the number of prerequisite edges on the shortest path from a skill of the
\* frontier's parent down to p, counted from n (0 if p is never reached)
RECURSIVE LevelFrom(_, _, _)
LevelFrom(frontier, p, n) ==
    IF frontier = {} THEN 0
    ELSE IF p \in frontier THEN n
    ELSE LevelFrom(UNION {DirectPrereqs(s) : s \in frontier}, p, n + 1)

\* the traversal level of prerequisite p below gap g: 1 for a direct
\* prerequisite, 2 for a prerequisite of a prerequisite
Level(g, p) == LevelFrom(DirectPrereqs(g), p, 1)

\* C24: the prereq_depth schedule_steps records for a preparation step is the
\* number of traversal levels between the gap skill it was scheduled for and
\* that prerequisite: 1 for a direct prerequisite, 2 for a prerequisite of a
\* prerequisite, and so on.
C24_PrereqDepth ==
    ScheduledJ =>
        \A i \in 1..Len(candidates) :
            candidates[i].is_prereq =>
                candidates[i].prereq_depth =
                    Level(SchedulingGap(candidates[i].name), candidates[i].name)

\* the names of the steps of a roadmap
StepNames(rm) == {rm[i].step : i \in 1..Len(rm)}

\* the gap skills of the call
GapSet == Range(GapNames(gaps_arg))

EarlierGapsReaching(j) ==
    {i \in 1..(j - 1) : gaps_arg[j].skill \in Reachable(gaps_arg[i].skill)}

\* C27: a gap that lies in the prerequisite closure of a gap earlier in the
\* importance-sorted list is scheduled once, as a preparation step
\* (Course/Preparation, 2 weeks, reason 'Prerequisite for <the earlier gap>'),
\* and gets no core step; a gap skill has a core step only if no earlier gap
\* had it in its closure.
C27_GapAsPreparation ==
    (Built /\ rm_target_role \in RoleNames) =>
        \A j \in 1..Len(gaps_arg) :
            LET g == gaps_arg[j].skill
                at == StepsNamed(roadmap, g)
            IN  /\ EarlierGapsReaching(j) # {} =>
                      /\ Cardinality(at) = 1
                      /\ \A i \in at :
                            /\ roadmap[i].type = "Course/Preparation"
                            /\ roadmap[i].duration_weeks = 2
                            /\ roadmap[i].reason = "Prerequisite for " \o SchedulingGap(g)
                            /\ SchedulingGap(g) \in
                                  {gaps_arg[k].skill : k \in EarlierGapsReaching(j)}
                /\ (\E i \in at : roadmap[i].type = "Course/Project") =>
                      EarlierGapsReaching(j) = {}

\* Machine Learning Basics is a gap and a prerequisite of the earlier gap Deep
\* Learning: it is scheduled as a preparation step for Deep Learning
C27_Witness ==
    /\ Built
    /\ rm_target_role = "Machine Learning Engineer"
    /\ \E i, j \in 1..Len(gaps_arg) :
          /\ i < j
          /\ gaps_arg[i].skill = "Deep Learning"
          /\ gaps_arg[j].skill = "Machine Learning Basics"
    /\ \E i \in 1..Len(roadmap) :
          /\ roadmap[i].step = "Machine Learning Basics"
          /\ roadmap[i].reason = "Prerequisite for Deep Learning"

\* the rule-based schedule_steps has returned on a drawn catalog
ScheduledRule == pcr = "scheduled"

\* every step of the roadmap comes after the steps of all its transitive
\* prerequisites that are in the roadmap
DependencySafe(rm) ==
    \A i, j \in 1..Len(rm) : rm[j].step \in Reachable(rm[i].step) => j < i

\* C28 as stated: in the list the rule-based schedule_steps returns, for every
\* acyclic prerequisite graph, every gap list and every detected list, each
\* step comes after the steps of all its transitive prerequisites that are in
\* the roadmap.
C28_RuleOrder_AsStated ==
    (ScheduledRule /\ Acyclic) => DependencySafe(roadmap)

\* C28 amended: for every acyclic prerequisite graph, every detected list and
\* every gap list that names no detected skill (such as gap_analysis returns),
\* each step of the list the rule-based schedule_steps returns comes after the
\* steps of all its transitive prerequisites that are in the roadmap.
C28_RuleOrder ==
    (ScheduledRule /\ Acyclic /\ GapSet \cap Range(detected_arg) = {}) =>
        DependencySafe(roadmap)

\* two gaps, the first a prerequisite of a prerequisite of the second, and a
\* detected skill between them: the second gap's closure is scheduled around
\* the step the first gap already has
C28_Witness ==
    /\ ScheduledRule
    /\ Acyclic
    /\ Len(gaps_arg) = 2
    /\ detected_arg # <<>>
    /\ GapSet \cap Range(detected_arg) = {}
    /\ gaps_arg[1].skill \in Reachable(gaps_arg[2].skill) \ DirectPrereqs(gaps_arg[2].skill)
    /\ Range(detected_arg) \subseteq Reachable(gaps_arg[2].skill)
    /\ Len(roadmap) = 3

\* every direct prerequisite of the skill holds at least 70% of its required_xp
PrereqsAtThreshold(sid) == \A p \in Prereqs(sid) : 10 * Xp(p) >= 7 * Required(p)

\* C25 as stated: the status update_statuses assigns is a function of the
\* skill's XP and its direct prerequisites' XP alone, the same for every
\* iteration order over the catalog, and a skill whose direct prerequisites
\* each hold >= 70% of their required XP is unlocked or in_progress even when
\* one of those prerequisites is itself locked.
C25_DirectPrereqsOnly_AsStated ==
    Updated =>
        \A sid \in Skills :
            /\ Status(sid) = RuleStatus(sid)
            /\ PrereqsAtThreshold(sid) => Status(sid) \in {"unlocked", "in_progress"}

\* C25 amended: the status is that function for every iteration order, and a
\* skill whose direct prerequisites each hold >= 70% of their required XP is
\* never locked, whatever the status of those prerequisites: it is completed
\* if its own XP is >= its required_xp, else unlocked or in_progress.
C25_DirectPrereqsOnly ==
    Updated =>
        \A sid \in Skills :
            /\ Status(sid) = RuleStatus(sid)
            /\ PrereqsAtThreshold(sid) =>
                  Status(sid) = (IF Xp(sid) >= Required(sid) THEN "completed"
                                 ELSE IF Xp(sid) > 0 THEN "in_progress" ELSE "unlocked")

\* ml_fundamentals is locked behind python and holds 70% of its own XP:
\* model_deployment, which depends on it, is unlocked
C25_Witness ==
    /\ Updated
    /\ Xp("python") = 0
    /\ Status("ml_fundamentals") = "locked"
    /\ PrereqsAtThreshold("model_deployment")
    /\ Status("model_deployment") = "unlocked"

\* the user state a session with these cv_features has after update_statuses
\* when it runs alone
AloneState(cv) == update_statuses(build_user_state_from_cv(cv)).state

\* the recommendations it then gets
AloneRecs(cv, role, k) == get_adaptive_recommendations(AloneState(cv), role, k).recs

\* C21: when build_user_state_from_cv, update_statuses and
\* get_adaptive_recommendations run for two sessions, each with its own
\* user_state, with their steps interleaved in any order, each session ends
\* with the statuses and the recommendations it has when it runs alone, and a
\* repeated call for the same session returns the same result.
C21_SessionIsolation ==
    \A n \in Sessions :
        /\ sess[n].pc \in {"updated", "recommended"} =>
              heap[sess[n].ref] = AloneState(sess[n].cv)
        /\ sess[n].pc = "recommended" =>
              sess[n].recs = AloneRecs(sess[n].cv, sess[n].role, sess[n].k)
        /\ sess[n].calls > 1 => sess[n].recs = sess[n].prev_recs

\* session 2 built its state first and is in the middle of update_statuses
\* while session 1, on other cv_features, has been recommended items twice
C21_Witness ==
    /\ sess[2].ref = 1
    /\ sess[2].pc = "updating"
    /\ sess[1].pc = "recommended"
    /\ sess[1].calls = 2
    /\ sess[1].cv # sess[2].cv
    /\ sess[1].recs # <<>>
    /\ heap[1] # heap[2]

\* the current_xp of every skill of every dict of the heap is as it was
XpKept ==
    \A r \in DOMAIN heap :
        /\ r \in DOMAIN heap'
        /\ DOMAIN heap'[r] = DOMAIN heap[r]
        /\ \A sid \in DOMAIN heap[r] : heap'[r][sid].current_xp = heap[r][sid].current_xp

\* session n took a step of the operation
Ran(n, from, to) == sess[n].pc \in from /\ sess'[n].pc = to /\ sess'[n] # sess[n]

\* what a step of session n leaves alone
FrameOf(n) ==
    /\ sess'[n].cv = sess[n].cv
    /\ XpKept
    /\ Ran(n, {"built", "updating"}, "updating") \/ Ran(n, {"built", "updating"}, "updated") =>
          \A r \in DOMAIN heap : r # sess[n].ref => heap'[r] = heap[r]
    /\ Ran(n, {"updated", "recommended"}, "recommended") => heap' = heap
    /\ Ran(n, {"start"}, "built") => \A r \in DOMAIN heap : heap'[r] = heap[r]

\* C30: update_statuses changes only the status field of the user state and
\* never a current_xp; get_adaptive_recommendations changes nothing in the user
\* state; neither of them, nor build_user_state_from_cv, changes the
\* cv_features it reads, a user state that is not its own, or the catalogs
\* SKILL_DEFS and CONTENT_DB (which the functions only read: they are
\* constants here, out of the reach of every step).
C30_FrameEffects == [][\A n \in Sessions : FrameOf(n)]_vars

\* update_statuses has changed a status of a state that holds XP, and
\* get_adaptive_recommendations has run on it
C30_Witness ==
    \E n \in Sessions :
        /\ sess[n].pc = "recommended"
        /\ heap[sess[n].ref]["python"].current_xp > 0
        /\ heap[sess[n].ref]["python"].status # "locked"
        /\ sess[n].recs # <<>>

\* an orchestrator has been constructed
Constructed == DOMAIN disk_loads = ModuleNames

\* C29: over any sequence of method calls on one CareerMatchOrchestrator, each
\* feature module name is loaded from disk at most once after its first
\* successful load, the cache is empty until a method is invoked and never
\* loses an entry, and a load that raises leaves the cache unchanged, so that
\* the next call retries it.
C29_LazyCache ==
    Constructed =>
        /\ \A n \in ModuleNames : disk_loads[n] <= 1
        /\ DOMAIN modules = {n \in ModuleNames : disk_loads[n] = 1}
        /\ orch_method = "" => modules = EmptyDict
        /\ \A n \in DOMAIN prev_modules :
              n \in DOMAIN modules /\ modules[n] = prev_modules[n]
        /\ orch_err # "none" => modules = prev_modules
        /\ orch_err # "none" => ~CacheHit(ModuleOf(orch_method).name, modules)

\* a module whose load raised once is in the cache after a later call, next to
\* a module an earlier call cached, and the call that ran last found it cached
C29_Witness ==
    /\ Constructed
    /\ failed_loads.count > 0
    /\ failed_loads.last \in DOMAIN modules
    /\ disk_loads[failed_loads.last] = 1
    /\ Cardinality(DOMAIN modules) > 1
    /\ orch_err = "none"
    /\ modules = prev_modules

\* a method of the orchestrator has been called
Called == orch_method \in Methods

\* C22: every public method of CareerMatchOrchestrator returns a dict for every
\* input: no exception leaves it, and when its feature file is missing, fails
\* to import, or the feature call fails, the dict it returns has the keys
\* 'error' and 'message'.
C22_NeverRaises ==
    Called =>
        /\ orch_err = "none"
        /\ "error" \in DOMAIN orch_out => "message" \in DOMAIN orch_out

\* C23: with the repository's feature files as they are and cv_features keyed
\* by catalog skill ids, adaptive_recommend(cv_features, target_role, top_k)
\* returns a dict with the key 'user_state' (current_xp and status of every
\* catalog skill) and the key 'recommendations' (at most top_k items), not an
\* error dict.
C23_AdaptiveRecommend ==
    (orch_method = "adaptive_recommend" /\ files = RepoFiles /\ orch_err = "none") =>
        /\ "error" \notin DOMAIN orch_out
        /\ DOMAIN orch_out = {"user_state", "recommendations"}
        /\ DOMAIN orch_out.user_state = Skills
        /\ Len(orch_out.recommendations) <= MaxTopK

====
